---- MODULE Spec2Model ----
(***************************************************************************)
(* Skin Moments scheduler: the ordered-block schedule engine               *)
(* (scheduler.js), the drag controller (drag.js) and the handlers of       *)
(* app.js that connect them; the sessions of auth.js and login.js; the     *)
(* Firestore integration of app.js; the date-assignment panel of admin.js. *)
(*                                                                         *)
(* A schedule is a record                                                  *)
(*   [hasBlocks, blocks, appointments]                                     *)
(* hasBlocks = FALSE stands for an old-format document (no blocks array);  *)
(* blocks is the ordered list of [type, id]; appointments maps a block id  *)
(* to the appointment stored under it.  Clock strings "HH:MM" are          *)
(* sequences of one-character strings.                                     *)
(***************************************************************************)
EXTENDS Integers, Sequences, FiniteSets, TLC

VARIABLES
    schedule,      \* the schedule value the operations are applied to (state.schedule)
    out,           \* the result of the last reflow (scheduleItems, slots, appointments, needsReschedule)
    nextId,        \* counter behind generateId(): ids are never reused
    now,           \* the clock read by new Date(); one tick per operation
    last,          \* the operation that produced the current state
    prev,          \* the schedule that operation was given
    arg,           \* the other arguments it was given
    isDragging,    \* drag.js: a gesture is in progress
    dragType,      \* drag.js: <<>> for null, else <<data-drag-type of the grabbed element>>
    dragBlockId,   \* drag.js: <<>> for null, else <<data-block-id>>
    dragFromIndex, \* drag.js: <<>> for null, else <<data-block-index>>
    blockHeights,  \* drag.js: heights of the schedule rows, read at pointerdown
    stored,        \* the schedule document of the day: <<>> when absent, else <<schedule>>
    intent,        \* what the last event handed to onDragEnd: <<>> when nothing
    saved,         \* the last event wrote the schedule document
    heap,          \* the schedule objects, block arrays and appointment objects allocated so far
    cur,           \* the object state.schedule refers to (0 for none)
    call,          \* the last call on the heap: its argument, its result, the heap before it
    session,       \* auth.js: localStorage[SESSION_KEY], <<>> when absent, else <<session object>>
    authUser,      \* Firebase Auth: the signed-in user, <<>> for none; survives a page reload
    authEvents,    \* auth-state notifications not yet handed to the callback of initAuth
    authFetches,   \* callbacks of initAuth waiting for getDoc(users/uid): the users they run for
    login,         \* login.js: where handleLogin / loginPharmacy / loginAdmin stands
    modalVisible,  \* login.js: the login modal is shown
    verdict,       \* the result of the last checkDateAssignment, <<>> before the first
    assignmentDocs,    \* Firestore collection dateAssignments: date -> <<>> or <<document>>
    schedules,         \* Firestore collection schedules: date -> <<>> or <<schedule>>
    monthAvailability, \* Firestore collection month_availability: month -> <<>> or <<{date: 'full'}>>
    date,          \* app.js: state.date
    unsubscribeSnapshot, \* app.js: <<>> for null, else <<listener the function removes>>
    listeners,     \* the snapshot listeners registered by the app and not removed
    tasks,         \* app.js and cancelReservation: async functions waiting at an await
    origin,        \* the document state.schedule was last read from, <<>> for a fresh state
    availabilityCache, \* app.js: availabilityCache
    loads,         \* the number of loadScheduleFromFirebase calls so far
    pharmacies,    \* admin.js: pharmacies
    dateAssignments,   \* admin.js: dateAssignments, the local copy of the collection
    lockedDates,   \* admin.js: lockedDates
    selectedDates, \* admin.js: dateAssignmentCalendar.selectedDates
    assignPharmacySelect, \* admin.js: the value of #assignPharmacySelect
    assignDisabled,    \* admin.js: #assignDatesBtn is disabled
    adminPc,       \* admin.js: the await initializeAdmin stands at
    adminTasks     \* admin.js: assignDates / removeAssignment waiting at an await

coreVars == <<schedule, out, nextId, now, last, prev, arg>>

dragVars == <<isDragging, dragType, dragBlockId, dragFromIndex, blockHeights, stored, intent, saved>>

heapVars == <<heap, cur, call>>

authVars == <<session, authUser, authEvents, authFetches, login, modalVisible, verdict>>

storeVars == <<assignmentDocs, schedules, monthAvailability>>

appVars == <<date, unsubscribeSnapshot, listeners, tasks, origin, availabilityCache, loads>>

adminVars == <<pharmacies, dateAssignments, lockedDates, selectedDates, assignPharmacySelect,
               assignDisabled, adminPc, adminTasks>>

pageVars == <<authVars, storeVars, appVars, adminVars>>

vars == <<coreVars, dragVars, heapVars, pageVars>>

\* no page is open: nobody is signed in
AuthIdle ==
    /\ session = <<>>
    /\ authUser = <<>>
    /\ authEvents = <<>>
    /\ authFetches = {}
    /\ login = [pc |-> "idle", result |-> "none"]
    /\ modalVisible = FALSE
    /\ verdict = <<>>

\* the schedule page is not connected to Firestore
AppIdle ==
    /\ date = <<>>
    /\ unsubscribeSnapshot = <<>>
    /\ listeners = {}
    /\ tasks = {}
    /\ origin = <<>>
    /\ availabilityCache = <<>>
    /\ loads = 0

\* the admin dashboard is not open
AdminIdle ==
    /\ pharmacies = {}
    /\ dateAssignments = <<>>
    /\ lockedDates = {}
    /\ selectedDates = <<>>
    /\ assignPharmacySelect = ""
    /\ assignDisabled = TRUE
    /\ adminPc = "closed"
    /\ adminTasks = {}

StoreIdle ==
    /\ assignmentDocs = <<>>
    /\ schedules = <<>>
    /\ monthAvailability = <<>>

PagesIdle == AuthIdle /\ StoreIdle /\ AppIdle /\ AdminIdle

----------------------------------------------------------------------------
(* Bounds of the model *)

MaxTime == 2
MaxLen == 0
MaxLunchPos == 14
MaxSaves == 14

----------------------------------------------------------------------------
(* Constants of scheduler.js *)

DAY_START == <<"0", "9", ":", "0", "0">>
DAY_END == <<"1", "9", ":", "0", "0">>
SLOT_DURATION == 45
LUNCH_DURATION == 60
TECH_BREAK_DURATION == 15
PX_PER_15MIN == 24

SLOT == "slot"
LUNCH == "lunch"
TECH_BREAK == "techBreak"
BLOCK_TYPES == {SLOT, LUNCH, TECH_BREAK}

Min(a, b) == IF a < b THEN a ELSE b
Max(a, b) == IF a > b THEN a ELSE b

----------------------------------------------------------------------------
(* Time conversion *)

DigitChars == <<"0", "1", "2", "3", "4", "5", "6", "7", "8", "9">>

DigitValue(c) == (CHOOSE d \in 1..10 : DigitChars[d] = c) - 1

RECURSIVE NumberToString(_)
NumberToString(n) ==
    IF n < 10 THEN <<DigitChars[n + 1]>>
    ELSE NumberToString(n \div 10) \o <<DigitChars[(n % 10) + 1]>>

PadStart2(str) == IF Len(str) < 2 THEN <<"0">> \o str ELSE str

RECURSIVE ParseNumber(_)
ParseNumber(str) ==
    IF str = <<>> THEN 0
    ELSE ParseNumber(SubSeq(str, 1, Len(str) - 1)) * 10 + DigitValue(str[Len(str)])

ColonAt(time) == CHOOSE k \in 1..Len(time) : time[k] = ":" /\ \A j \in 1..(k - 1) : time[j] # ":"

timeToMinutes(time) ==
    LET k == ColonAt(time)
        hours == ParseNumber(SubSeq(time, 1, k - 1))
        minutes == ParseNumber(SubSeq(time, k + 1, Len(time)))
    IN  hours * 60 + minutes

\* a clock string on the twelve-hour dial
minutesToTimeTwelveHour(minutes) ==
    LET hours == IF minutes \div 60 > 12 THEN (minutes \div 60) - 12 ELSE minutes \div 60
        mins == minutes % 60
    IN  PadStart2(NumberToString(hours)) \o <<":">> \o PadStart2(NumberToString(mins))

minutesToTime(minutes) ==
    LET hours == minutes \div 60
        mins == minutes % 60
    IN  PadStart2(NumberToString(hours)) \o <<":">> \o PadStart2(NumberToString(mins))

\* Math.round(minutes * 24 / 15): round half up
durationToPx(minutes) == (2 * minutes * PX_PER_15MIN + 15) \div 30

\* a duration lookup without the lunch case
getBlockDurationNoLunch(blockType) ==
    IF blockType = TECH_BREAK THEN TECH_BREAK_DURATION ELSE SLOT_DURATION

getBlockDuration(blockType) ==
    CASE blockType = SLOT -> SLOT_DURATION
      [] blockType = LUNCH -> LUNCH_DURATION
      [] blockType = TECH_BREAK -> TECH_BREAK_DURATION
      [] OTHER -> SLOT_DURATION

generateId(n) == "b" \o ToString(n)

dayStartMin == timeToMinutes(DAY_START)
dayEndMin == timeToMinutes(DAY_END)
totalDayMinutes == dayEndMin - dayStartMin

RECURSIVE TotalDuration(_)
TotalDuration(blocks) ==
    IF blocks = <<>> THEN 0
    ELSE getBlockDuration(Head(blocks).type) + TotalDuration(Tail(blocks))

LunchCount(blocks) == Cardinality({i \in 1..Len(blocks) : blocks[i].type = LUNCH})

BlockIds(blocks) == {blocks[i].id : i \in 1..Len(blocks)}

IdSeq(items) == [i \in 1..Len(items) |-> items[i].id]

----------------------------------------------------------------------------
(* Array.prototype.splice and filter, as the operations use them *)

SpliceStart(len, start) == IF start < 0 THEN Max(len + start, 0) ELSE Min(start, len)

SpliceInsert(seq, start, x) ==
    LET k == SpliceStart(Len(seq), start)
    IN  SubSeq(seq, 1, k) \o <<x>> \o SubSeq(seq, k + 1, Len(seq))

SpliceRemove(seq, start) ==
    LET k == SpliceStart(Len(seq), start)
    IN  SubSeq(seq, 1, k) \o SubSeq(seq, k + 2, Len(seq))

SpliceRemoved(seq, start) ==
    LET k == SpliceStart(Len(seq), start)
    IN  IF k < Len(seq) THEN <<seq[k + 1]>> ELSE <<>>

----------------------------------------------------------------------------
(* Block model *)

Block(type, id) == [type |-> type, id |-> id]

\* The while loop of createDefaultBlocks: st = [blocks, currentMinutes, slotCount, hasLunch, idc]
RECURSIVE DefaultBlocksLoop(_, _)
DefaultBlocksLoop(st, lunchPosition) ==
    IF ~(st.currentMinutes < totalDayMinutes) THEN st
    ELSE IF ~st.hasLunch /\ st.slotCount = lunchPosition THEN
        DefaultBlocksLoop([st EXCEPT !.blocks = Append(@, Block(LUNCH, "lunch")),
                                     !.currentMinutes = @ + LUNCH_DURATION,
                                     !.hasLunch = TRUE], lunchPosition)
    ELSE IF st.currentMinutes + SLOT_DURATION <= totalDayMinutes THEN
        DefaultBlocksLoop([st EXCEPT !.blocks = Append(@, Block(SLOT, generateId(st.idc))),
                                     !.currentMinutes = @ + SLOT_DURATION,
                                     !.slotCount = @ + 1,
                                     !.idc = @ + 1], lunchPosition)
    ELSE st

\* createDefaultBlocks(lunchPosition), drawing ids from counter idc: [blocks, idc]
createDefaultBlocks(lunchPosition, idc) ==
    LET st == DefaultBlocksLoop([blocks |-> <<>>, currentMinutes |-> 0, slotCount |-> 0,
                                 hasLunch |-> FALSE, idc |-> idc], lunchPosition)
    IN  [blocks |-> st.blocks, idc |-> st.idc]

NoAppointments == [id \in {} |-> {}]

\* a filter that lets every lunch through
KeepEveryLunch(blocks, foundLunch) == blocks

\* the filter of migrateOldScheduleFormat that keeps only the first lunch
RECURSIVE KeepFirstLunch(_, _)
KeepFirstLunch(blocks, foundLunch) ==
    IF blocks = <<>> THEN <<>>
    ELSE IF Head(blocks).type = LUNCH
         THEN (IF foundLunch THEN <<>> ELSE <<Head(blocks)>>) \o KeepFirstLunch(Tail(blocks), TRUE)
         ELSE <<Head(blocks)>> \o KeepFirstLunch(Tail(blocks), foundLunch)

\* a padding loop that tests after appending, so it always appends one slot
PadAtLeastOnce(blocks, currentMinutes, idc) ==
    LET n == Max(1, (totalDayMinutes - currentMinutes) \div SLOT_DURATION)
    IN  [blocks |-> blocks \o [k \in 1..n |-> Block(SLOT, generateId(idc + k - 1))], idc |-> idc + n]

\* the padding loop of migrateOldScheduleFormat: [blocks, idc]
RECURSIVE PadWithSlots(_, _, _)
PadWithSlots(blocks, currentMinutes, idc) ==
    IF currentMinutes + SLOT_DURATION <= totalDayMinutes
    THEN PadWithSlots(Append(blocks, Block(SLOT, generateId(idc))), currentMinutes + SLOT_DURATION, idc + 1)
    ELSE [blocks |-> blocks, idc |-> idc]

\* migrateOldScheduleFormat(schedule): [schedule, idc].  With a blocks array the
\* argument itself is changed and returned; otherwise a fresh schedule is returned.
migrateOldScheduleFormat(s, idc) ==
    IF s.hasBlocks THEN
        LET lunchCount == LunchCount(s.blocks)
            deduped == IF lunchCount > 1 THEN KeepFirstLunch(s.blocks, FALSE) ELSE s.blocks
            padded == PadWithSlots(deduped, TotalDuration(deduped), idc)
            lunchPos == Min(4, Len(padded.blocks))
            blocks == IF lunchCount = 0
                      THEN SpliceInsert(padded.blocks, lunchPos, Block(LUNCH, "lunch"))
                      ELSE padded.blocks
        IN  [schedule |-> [s EXCEPT !.blocks = blocks], idc |-> padded.idc]
    ELSE
        LET fresh == createDefaultBlocks(4, idc)
        IN  [schedule |-> [hasBlocks |-> TRUE, blocks |-> fresh.blocks, appointments |-> NoAppointments],
             idc |-> fresh.idc]

----------------------------------------------------------------------------
(* Reflow engine *)

\* a booked test that reads the status of the appointment instead of its isBooked flag
IsBookedByStatus(appointments, id) ==
    /\ id \in DOMAIN appointments
    /\ "status" \in DOMAIN appointments[id]

IsBooked(appointments, id) ==
    /\ id \in DOMAIN appointments
    /\ "isBooked" \in DOMAIN appointments[id]
    /\ appointments[id].isBooked = TRUE

\* a day-end test on the start of the block instead of its end
StartsAfterDayEnd(currentTime, duration) == currentTime > dayEndMin

\* the test that ends the walk of reflow
ExceedsDayEnd(currentTime, duration) == currentTime + duration > dayEndMin

EmptyOutput == [scheduleItems |-> <<>>, slots |-> <<>>, appointments |-> <<>>, needsReschedule |-> <<>>]

\* the for loop of reflow: i is the 0-based block index, acc the lists built so far
RECURSIVE ReflowLoop(_, _, _, _)
ReflowLoop(s, i, currentTime, acc) ==
    IF ~(i < Len(s.blocks)) THEN acc
    ELSE
        LET block == s.blocks[i + 1]
            duration == getBlockDuration(block.type)
            startTime == minutesToTime(currentTime)
            endTime == minutesToTime(currentTime + duration)
            booked == block.type = SLOT /\ IsBooked(s.appointments, block.id)
            item == [id |-> block.id,
                     type |-> IF booked THEN "bookedAppointment" ELSE block.type,
                     start |-> startTime, end |-> endTime,
                     blockIndex |-> i, duration |-> duration,
                     isBooked |-> booked]
        IN  IF ExceedsDayEnd(currentTime, duration) THEN acc
            ELSE ReflowLoop(s, i + 1, currentTime + duration,
                    [acc EXCEPT
                       !.scheduleItems = Append(@, item),
                       !.appointments =
                           IF booked
                           THEN Append(@, [id |-> block.id, start |-> startTime, blockIndex |-> i,
                                           isBooked |-> TRUE, data |-> s.appointments[block.id]])
                           ELSE @,
                       !.slots =
                           IF block.type = SLOT /\ ~booked
                           THEN Append(@, [id |-> block.id, start |-> startTime, end |-> endTime,
                                           blockIndex |-> i, type |-> "slot"])
                           ELSE @])

\* a reflow that walks the blocks it was given, not the repaired ones
reflowUnrepaired(s, idc) ==
    LET migrated == migrateOldScheduleFormat(s, idc)
        after == [hasBlocks |-> TRUE,
                  blocks |-> migrated.schedule.blocks,
                  appointments |-> migrated.schedule.appointments]
    IN  [schedule |-> after,
         idc |-> migrated.idc,
         output |-> ReflowLoop(s, 0, dayStartMin, EmptyOutput)]

\* reflow(schedule): [schedule, idc, output].  schedule is the argument as reflow
\* leaves it (blocks and appointments are assigned back into it).
reflow(s, idc) ==
    LET migrated == migrateOldScheduleFormat(s, idc)
        after == [hasBlocks |-> TRUE,
                  blocks |-> migrated.schedule.blocks,
                  appointments |-> migrated.schedule.appointments]
    IN  [schedule |-> after,
         idc |-> migrated.idc,
         output |-> ReflowLoop(after, 0, dayStartMin, EmptyOutput)]

----------------------------------------------------------------------------
(* Schedule mutation operations *)

\* insertBlock(schedule, position, blockType, id): id is generated by the caller of
\* this operator when the argument is null
insertBlock(s, position, blockType, id) ==
    [s EXCEPT !.blocks = SpliceInsert(s.blocks, position, Block(blockType, id))]

RemoveAt(blocks, idx) ==
    [k \in 1..(Len(blocks) - (IF idx >= 0 /\ idx < Len(blocks) THEN 1 ELSE 0)) |->
        IF idx >= 0 /\ k > idx THEN blocks[k + 1] ELSE blocks[k]]

RECURSIVE RemoveId(_, _)
RemoveId(blocks, id) ==
    IF blocks = <<>> THEN <<>>
    ELSE (IF Head(blocks).id # id THEN <<Head(blocks)>> ELSE <<>>) \o RemoveId(Tail(blocks), id)

\* a removal that also drops the appointments of the blocks it removes
removeBlockAndAppointments(s, byIndex, positionOrId) ==
    LET blocks == IF byIndex THEN RemoveAt(s.blocks, positionOrId) ELSE RemoveId(s.blocks, positionOrId)
    IN  [s EXCEPT !.blocks = blocks,
                  !.appointments = [id \in DOMAIN s.appointments \cap BlockIds(blocks) |-> s.appointments[id]]]

\* removeBlock(schedule, positionOrId): byIndex tells typeof positionOrId === 'number'
removeBlock(s, byIndex, positionOrId) ==
    [s EXCEPT !.blocks = IF byIndex THEN RemoveAt(s.blocks, positionOrId)
                         ELSE RemoveId(s.blocks, positionOrId)]

\* a move that corrects toIndex for the removal when the block moves down
moveBlockAdjusted(s, fromIndex, toIndex) ==
    LET removed == SpliceRemoved(s.blocks, fromIndex)
        rest == SpliceRemove(s.blocks, fromIndex)
    IN  IF removed = <<>> THEN s
        ELSE [s EXCEPT !.blocks =
                SpliceInsert(rest, IF toIndex > fromIndex THEN toIndex - 1 ELSE toIndex, removed[1])]

UndefinedBlock == Block("undefined", "undefined")

\* a move that exchanges the blocks at the two indices
moveBlockExchanged(s, fromIndex, toIndex) ==
    IF fromIndex < 0 \/ toIndex < 0 \/ fromIndex >= Len(s.blocks) \/ toIndex >= Len(s.blocks) THEN s
    ELSE [s EXCEPT !.blocks = [@ EXCEPT ![fromIndex + 1] = s.blocks[toIndex + 1],
                                        ![toIndex + 1] = s.blocks[fromIndex + 1]]]

moveBlock(s, fromIndex, toIndex) ==
    LET removed == SpliceRemoved(s.blocks, fromIndex)
        movedBlock == IF removed = <<>> THEN UndefinedBlock ELSE removed[1]
        rest == IF removed = <<>> THEN s.blocks ELSE SpliceRemove(s.blocks, fromIndex)
    IN  [s EXCEPT !.blocks = SpliceInsert(rest, toIndex, movedBlock)]

\* blocks.findIndex(test): the first index whose block passes, -1 when none does
FirstIndexIn(blocks, passing) ==
    IF passing = {} THEN -1
    ELSE (CHOOSE k \in passing : \A j \in passing : k <= j) - 1

findBlockIndex(s, blockId) ==
    FirstIndexIn(s.blocks, {k \in 1..Len(s.blocks) : s.blocks[k].id = blockId})

\* addTechBreak(schedule, position): given = FALSE stands for position = null
addTechBreak(s, given, position, id) ==
    insertBlock(s, IF given THEN position ELSE 1, TECH_BREAK, id)

removeTechBreak(s, breakId) == removeBlock(s, FALSE, breakId)

\* a move of the lunch with the two indices exchanged
moveLunchSwapped(s, newPosition) ==
    LET lunchIndex == FirstIndexIn(s.blocks, {k \in 1..Len(s.blocks) : s.blocks[k].type = LUNCH})
    IN  IF lunchIndex = -1 THEN s ELSE moveBlock(s, newPosition, lunchIndex)

moveLunch(s, newPosition) ==
    LET lunchIndex == FirstIndexIn(s.blocks, {k \in 1..Len(s.blocks) : s.blocks[k].type = LUNCH})
    IN  IF lunchIndex = -1 THEN s ELSE moveBlock(s, lunchIndex, newPosition)

\* a move of a tech break that does not test whether the break was found
moveTechBreakUnchecked(s, breakId, newPosition) ==
    moveBlock(s, findBlockIndex(s, breakId), newPosition)

moveTechBreak(s, breakId, newPosition) ==
    LET breakIndex == findBlockIndex(s, breakId)
    IN  IF breakIndex = -1 THEN s ELSE moveBlock(s, breakIndex, newPosition)

\* an appointment record that fills in the default status
NewAppointmentWithDefaults(details, time) ==
    [k \in DOMAIN details \cup {"isBooked", "createdAt", "status"} |->
        IF k = "isBooked" THEN TRUE
        ELSE IF k = "createdAt" THEN time
        ELSE IF k \in DOMAIN details THEN details[k]
        ELSE "scheduled"]

\* {...details, isBooked: true, createdAt: new Date().toISOString()}
NewAppointment(details, time) ==
    [k \in DOMAIN details \cup {"isBooked", "createdAt"} |->
        IF k = "isBooked" THEN TRUE
        ELSE IF k = "createdAt" THEN time
        ELSE details[k]]

SetKey(f, key, value) == [k \in DOMAIN f \cup {key} |-> IF k = key THEN value ELSE f[k]]

DeleteKey(f, key) == [k \in DOMAIN f \ {key} |-> f[k]]

bookAppointment(s, blockId, details, time) ==
    [s EXCEPT !.appointments = SetKey(s.appointments, blockId, NewAppointment(details, time))]

clearAppointment(s, blockId) ==
    [s EXCEPT !.appointments = DeleteKey(s.appointments, blockId)]

\* getAppointmentById: present = FALSE stands for null
getAppointmentById(s, blockId) ==
    IF blockId \in DOMAIN s.appointments
    THEN [present |-> TRUE, value |-> s.appointments[blockId]]
    ELSE [present |-> FALSE]

moveAppointment(s, fromBlockId, toBlockId) ==
    IF fromBlockId \notin DOMAIN s.appointments THEN s
    ELSE [s EXCEPT !.appointments =
            SetKey(DeleteKey(s.appointments, fromBlockId), toBlockId, s.appointments[fromBlockId])]

validateSchedule(s) ==
    LET total == TotalDuration(s.blocks)
    IN  [valid |-> ~(total > totalDayMinutes), totalMinutes |-> total, maxMinutes |-> totalDayMinutes]

----------------------------------------------------------------------------
(* Objects: a schedule is an object whose blocks and appointments fields refer *)
(* to an array and to an object of their own; references are positions in the  *)
(* lists of the heap                                                         *)

EmptyHeap == [objs |-> <<>>, arrs |-> <<>>, maps |-> <<>>]

NoCall == [arg |-> 0, result |-> 0, before |-> EmptyHeap]

\* the schedule value an object holds
Value(h, o) ==
    [hasBlocks |-> h.objs[o].hasBlocks,
     blocks |-> h.arrs[h.objs[o].blocks],
     appointments |-> h.maps[h.objs[o].appointments]]

\* { blocks: [...], appointments: {...} }: a new object with a new array and map
NewObject(h, s) ==
    [heap |-> [objs |-> Append(h.objs, [hasBlocks |-> s.hasBlocks,
                                        blocks |-> Len(h.arrs) + 1,
                                        appointments |-> Len(h.maps) + 1]),
               arrs |-> Append(h.arrs, s.blocks),
               maps |-> Append(h.maps, s.appointments)],
     ref |-> Len(h.objs) + 1]

\* the new blocks written into the array of the object itself, which is returned
WriteBlocksInPlace(h, o, blocks) ==
    [heap |-> [h EXCEPT !.arrs[h.objs[o].blocks] = blocks], ref |-> o]

\* return { ...schedule, blocks: newBlocks }: newBlocks is a new array, the new
\* object shares the appointments of the old one
CopyWithBlocks(h, o, blocks) ==
    [heap |-> [h EXCEPT !.objs = Append(@, [h.objs[o] EXCEPT !.blocks = Len(h.arrs) + 1]),
                        !.arrs = Append(@, blocks)],
     ref |-> Len(h.objs) + 1]

\* return { ...schedule, appointments: newAppointments }: the new object shares
\* the blocks array of the old one
CopyWithAppointments(h, o, appointments) ==
    [heap |-> [h EXCEPT !.objs = Append(@, [h.objs[o] EXCEPT !.appointments = Len(h.maps) + 1]),
                        !.maps = Append(@, appointments)],
     ref |-> Len(h.objs) + 1]

SameObject(h, o) == [heap |-> h, ref |-> o]

insertBlockRef(h, o, position, blockType, id) ==
    CopyWithBlocks(h, o, insertBlock(Value(h, o), position, blockType, id).blocks)

removeBlockRef(h, o, byIndex, positionOrId) ==
    CopyWithBlocks(h, o, removeBlock(Value(h, o), byIndex, positionOrId).blocks)

moveBlockRef(h, o, fromIndex, toIndex) ==
    CopyWithBlocks(h, o, moveBlock(Value(h, o), fromIndex, toIndex).blocks)

moveLunchRef(h, o, newPosition) ==
    LET blocks == Value(h, o).blocks
        lunchIndex == FirstIndexIn(blocks, {k \in 1..Len(blocks) : blocks[k].type = LUNCH})
    IN  IF lunchIndex = -1 THEN SameObject(h, o) ELSE moveBlockRef(h, o, lunchIndex, newPosition)

moveTechBreakRef(h, o, breakId, newPosition) ==
    LET breakIndex == findBlockIndex(Value(h, o), breakId)
    IN  IF breakIndex = -1 THEN SameObject(h, o) ELSE moveBlockRef(h, o, breakIndex, newPosition)

bookAppointmentRef(h, o, blockId, details, time) ==
    CopyWithAppointments(h, o, bookAppointment(Value(h, o), blockId, details, time).appointments)

clearAppointmentRef(h, o, blockId) ==
    CopyWithAppointments(h, o, clearAppointment(Value(h, o), blockId).appointments)

moveAppointmentRef(h, o, fromBlockId, toBlockId) ==
    IF fromBlockId \notin DOMAIN Value(h, o).appointments THEN SameObject(h, o)
    ELSE CopyWithAppointments(h, o, moveAppointment(Value(h, o), fromBlockId, toBlockId).appointments)

\* reflow(schedule) on an object with a blocks array: filter makes a new array that
\* is assigned to schedule.blocks, push and splice change the array in place
reflowRef(h, o, idc) ==
    LET s == Value(h, o)
        repaired == migrateOldScheduleFormat(s, idc).schedule.blocks
    IN  IF LunchCount(s.blocks) > 1
        THEN [heap |-> [h EXCEPT !.objs[o].blocks = Len(h.arrs) + 1,
                                 !.arrs = Append(@, repaired)],
              ref |-> o]
        ELSE [heap |-> [h EXCEPT !.arrs[h.objs[o].blocks] = repaired], ref |-> o]

----------------------------------------------------------------------------
(* Inputs *)

OldFormatSchedule == [hasBlocks |-> FALSE, blocks |-> <<>>, appointments |-> NoAppointments]

NewSchedule(blocks) == [hasBlocks |-> TRUE, blocks |-> blocks, appointments |-> NoAppointments]

\* createInitialState().schedule: the default blocks with lunch at position 4
InitialSchedule == NewSchedule(createDefaultBlocks(4, 1).blocks)

\* a fullness flag that only asks for a booking
isFullAnyBooking(o) == Len(o.appointments) > 0

\* the day-fullness flag of renderSchedule and updateAvailabilityStatus
isFull(o) == Len(o.slots) = 0 /\ Len(o.appointments) > 0

\* a stored block list with the given kinds; a lunch block carries the id 'lunch'
StoredBlocks(kinds) ==
    [k \in 1..Len(kinds) |-> Block(kinds[k], IF kinds[k] = LUNCH THEN "lunch" ELSE generateId(k))]

\* requested lunch positions: the default, the first past the last slot, and beyond
LunchPositions == {4, 13, MaxLunchPos}

KindLists == UNION {[1..n -> BLOCK_TYPES] : n \in 0..MaxLen}

DetailsFull == [name |-> "Ana", contact |-> "ana@mail.pt", notes |-> "n", status |-> "completed"]
DetailsNoStatus == [name |-> "Rui", contact |-> "912000000"]
Details == {DetailsFull, DetailsNoStatus}

SlotIds(s) == {s.blocks[k].id : k \in {j \in 1..Len(s.blocks) : s.blocks[j].type = SLOT}}
TechBreakIds(s) == {s.blocks[k].id : k \in {j \in 1..Len(s.blocks) : s.blocks[j].type = TECH_BREAK}}

LastIndex(s) == {Len(s.blocks) - 1} \ {-1}

LastBlockId(s) == {s.blocks[k + 1].id : k \in LastIndex(s)}

FirstSlotId(s) == {s.blocks[k].id : k \in {j \in 1..Len(s.blocks) :
                        s.blocks[j].type = SLOT /\ \A i \in 1..(j - 1) : s.blocks[i].type # SLOT}}

----------------------------------------------------------------------------
(* The state machine of the core: an input schedule, then any operations *)

Init ==
    /\ \/ /\ schedule = OldFormatSchedule
          /\ nextId = 1
          /\ arg = <<>>
       \/ \E p \in LunchPositions :
            \E d \in {createDefaultBlocks(p, 1)} :
                /\ schedule = NewSchedule(d.blocks)
                /\ nextId = d.idc
                /\ arg = [lunchPosition |-> p]
       \/ \E kinds \in KindLists :
            /\ schedule = NewSchedule(StoredBlocks(kinds))
            /\ nextId = Len(kinds) + 1
            /\ arg = <<>>
    /\ out = EmptyOutput
    /\ now = 0
    /\ last = "init"
    /\ prev = schedule
    /\ isDragging = FALSE
    /\ dragType = <<>>
    /\ dragBlockId = <<>>
    /\ dragFromIndex = <<>>
    /\ blockHeights = <<>>
    /\ stored = <<>>
    /\ intent = <<>>
    /\ saved = FALSE
    /\ heap = EmptyHeap
    /\ cur = 0
    /\ call = NoCall
    /\ PagesIdle

\* renderSchedule's call of reflow: the schedule is repaired in place
Reflow ==
    \E r \in {reflow(schedule, nextId)} :
        /\ last # "reflow"
        /\ schedule' = r.schedule
        /\ nextId' = r.idc
        /\ out' = r.output
        /\ last' = "reflow"
        /\ prev' = schedule
        /\ arg' = <<>>
        /\ UNCHANGED <<now, dragVars, heapVars, pageVars>>

\* an operation of the core applied to the schedule; the reflow output is not recomputed
Apply(op, a, s, idc) ==
    /\ schedule.hasBlocks
    /\ now < MaxTime
    /\ schedule' = s
    /\ nextId' = idc
    /\ now' = now + 1
    /\ last' = op
    /\ prev' = schedule
    /\ arg' = a
    /\ UNCHANGED <<out, dragVars, heapVars, pageVars>>

InsertBlock ==
    \E a \in {[position |-> 0, type |-> LUNCH], [position |-> Len(schedule.blocks), type |-> SLOT]} :
        Apply("insertBlock", a, insertBlock(schedule, a.position, a.type, generateId(nextId)), nextId + 1)

AddTechBreak ==
    \E given \in BOOLEAN :
        Apply("addTechBreak", [given |-> given, position |-> Len(schedule.blocks) - 1],
              addTechBreak(schedule, given, Len(schedule.blocks) - 1, generateId(nextId)), nextId + 1)

RemoveBlock ==
    \/ \E idx \in LastIndex(schedule) :
        Apply("removeBlock", [byIndex |-> TRUE, index |-> idx], removeBlock(schedule, TRUE, idx), nextId)
    \/ \E id \in {"lunch"} \cup DOMAIN schedule.appointments :
        Apply("removeBlock", [byIndex |-> FALSE, id |-> id], removeBlock(schedule, FALSE, id), nextId)

RemoveTechBreak ==
    \E id \in TechBreakIds(schedule) :
        Apply("removeTechBreak", [id |-> id], removeTechBreak(schedule, id), nextId)

MoveBlock ==
    \E fromIndex \in {0} \cup LastIndex(schedule), toIndex \in {0} \cup LastIndex(schedule) :
        /\ fromIndex # toIndex
        /\ Apply("moveBlock", [fromIndex |-> fromIndex, toIndex |-> toIndex],
                 moveBlock(schedule, fromIndex, toIndex), nextId)

MoveLunch ==
    \E newPosition \in {0} :
        Apply("moveLunch", [toIndex |-> newPosition], moveLunch(schedule, newPosition), nextId)

MoveTechBreak ==
    \E id \in TechBreakIds(schedule) \cup {"ghost"} :
        Apply("moveTechBreak", [id |-> id, toIndex |-> 0], moveTechBreak(schedule, id, 0), nextId)

BookAppointment ==
    \E id \in LastBlockId(schedule), d \in Details :
        Apply("bookAppointment", [id |-> id, details |-> d, time |-> now],
              bookAppointment(schedule, id, d, now), nextId)

ClearAppointment ==
    \E id \in DOMAIN schedule.appointments :
        Apply("clearAppointment", [id |-> id], clearAppointment(schedule, id), nextId)

MoveAppointment ==
    \E from \in DOMAIN schedule.appointments, to \in FirstSlotId(schedule) :
        Apply("moveAppointment", [from |-> from, to |-> to],
              moveAppointment(schedule, from, to), nextId)

Next ==
    \/ Reflow
    \/ InsertBlock
    \/ AddTechBreak
    \/ RemoveBlock
    \/ RemoveTechBreak
    \/ MoveBlock
    \/ MoveLunch
    \/ MoveTechBreak
    \/ BookAppointment
    \/ ClearAppointment
    \/ MoveAppointment

Spec == Init /\ [][Next]_vars

----------------------------------------------------------------------------
(* Bookings carried by their block: the first slot of the day is booked, then *)
(* blocks are inserted, removed and moved                                    *)

BookFirstSlot ==
    \E id \in FirstSlotId(schedule) :
        Apply("bookAppointment", [id |-> id, details |-> DetailsFull, time |-> now],
              bookAppointment(schedule, id, DetailsFull, now), nextId)

NextCarry ==
    \/ Reflow
    \/ BookFirstSlot
    \/ InsertBlock
    \/ RemoveBlock
    \/ MoveBlock

SpecCarry == Init /\ [][NextCarry]_vars

----------------------------------------------------------------------------
(* The drag controller (drag.js) wired to the handlers of app.js *)

\* the rows renderSchedule builds, one per schedule item; a row is as tall as its
\* block is long on the time scale
calculateBlockHeights(items) == [k \in 1..Len(items) |-> durationToPx(items[k].duration)]

RECURSIVE SumHeights(_, _)
SumHeights(heights, n) == IF n = 0 THEN 0 ELSE SumHeights(heights, n - 1) + heights[n]

\* yToBlockPosition(y): the first row whose bottom edge lies below y, the last row
\* when there is none (-1 when there are no rows)
yToBlockPosition(heights, y) ==
    IF \E i \in 1..Len(heights) : y < SumHeights(heights, i)
    THEN (CHOOSE i \in 1..Len(heights) :
            /\ y < SumHeights(heights, i)
            /\ \A j \in 1..(i - 1) : ~(y < SumHeights(heights, j))) - 1
    ELSE Len(heights) - 1

\* attachDragHandlers: the lunch row, the tech break rows and the booked rows are
\* made draggable; the drag type of a booked row is 'appointment'
DragTypeOf(item) ==
    IF item.type = LUNCH THEN <<"lunch">>
    ELSE IF item.type = TECH_BREAK THEN <<"techBreak">>
    ELSE IF item.type = "bookedAppointment" THEN <<"appointment">>
    ELSE <<>>

\* pointer positions relative to the top of the schedule: above it, in the first
\* row, at the top of the second row, in the last row, below the last row
PointerYs(heights) ==
    {-1, 0, SumHeights(heights, Len(heights)) - 1, SumHeights(heights, Len(heights))}
        \cup {heights[k] : k \in {1} \cap DOMAIN heights}

\* the form of the drawer: status is <<>> when no status button is active
Forms == {[name |-> "Ana", contact |-> "ana@mail.pt", notes |-> "", status |-> <<>>]}

\* the open slots a click can select: the first and the last of the rendered ones
ClickableSlots(o) == {o.slots[k] : k \in {1, Len(o.slots)} \cap DOMAIN o.slots}

NoDrag ==
    /\ isDragging' = FALSE
    /\ dragType' = <<>>
    /\ dragBlockId' = <<>>
    /\ dragFromIndex' = <<>>
    /\ blockHeights' = <<>>

\* renderSchedule() followed by saveScheduleToFirebase(): the schedule is repaired
\* and laid out, and the repaired schedule is written to the document of the day
RenderAndSave(op, a, s, idc) ==
    \E r \in {reflow(s, idc)} :
        /\ schedule' = r.schedule
        /\ nextId' = r.idc
        /\ out' = r.output
        /\ stored' = <<r.schedule>>
        /\ saved' = TRUE
        /\ now' = now + 1
        /\ last' = op
        /\ prev' = schedule
        /\ arg' = a
        /\ UNCHANGED <<heapVars, pageVars>>

\* DOMContentLoaded: createInitialState() and the first renderSchedule()
InitDrag ==
    \E d \in {createDefaultBlocks(4, 1)} :
        \E r \in {reflow(NewSchedule(d.blocks), d.idc)} :
            /\ schedule = r.schedule
            /\ nextId = r.idc
            /\ out = r.output
            /\ now = 0
            /\ last = "init"
            /\ prev = r.schedule
            /\ arg = <<>>
            /\ isDragging = FALSE
            /\ dragType = <<>>
            /\ dragBlockId = <<>>
            /\ dragFromIndex = <<>>
            /\ blockHeights = <<>>
            /\ stored = <<>>
            /\ intent = <<>>
            /\ saved = FALSE
            /\ heap = EmptyHeap
            /\ cur = 0
            /\ call = NoCall
            /\ PagesIdle

HandleAddTechBreak ==
    /\ ~isDragging
    /\ now < MaxTime
    /\ RenderAndSave("handleAddTechBreak", [position |-> 1],
                     addTechBreak(schedule, TRUE, 1, generateId(nextId)), nextId + 1)
    /\ intent' = <<>>
    /\ UNCHANGED <<isDragging, dragType, dragBlockId, dragFromIndex, blockHeights>>

HandleDeleteTechBreak ==
    /\ ~isDragging
    /\ now < MaxTime
    /\ \E k \in 1..Len(out.scheduleItems) :
        /\ out.scheduleItems[k].type = TECH_BREAK
        /\ RenderAndSave("handleDeleteTechBreak", [id |-> out.scheduleItems[k].id],
                         removeTechBreak(schedule, out.scheduleItems[k].id), nextId)
    /\ intent' = <<>>
    /\ UNCHANGED <<isDragging, dragType, dragBlockId, dragFromIndex, blockHeights>>

\* saveSlot() for the slot the drawer was opened on, with the form as filled in
saveSlot(slot, form) ==
    LET status == IF form.status = <<>> THEN "scheduled" ELSE form.status[1]
        details == [name |-> form.name, contact |-> form.contact,
                    notes |-> form.notes, status |-> status]
    IN  RenderAndSave("saveSlot", [id |-> slot.id, details |-> details, time |-> now],
                      IF form.name = "" THEN clearAppointment(schedule, slot.id)
                      ELSE bookAppointment(schedule, slot.id, details, now),
                      nextId)

SaveSlot ==
    /\ ~isDragging
    /\ now < MaxTime
    /\ \E slot \in ClickableSlots(out), form \in Forms : saveSlot(slot, form)
    /\ intent' = <<>>
    /\ UNCHANGED <<isDragging, dragType, dragBlockId, dragFromIndex, blockHeights>>

\* handlePointerDown on a draggable row (primary button, not on a button)
PointerDown ==
    /\ ~isDragging
    /\ now < MaxTime
    /\ \E k \in 1..Len(out.scheduleItems) :
        /\ DragTypeOf(out.scheduleItems[k]) # <<>>
        /\ dragType' = DragTypeOf(out.scheduleItems[k])
        /\ dragBlockId' = <<out.scheduleItems[k].id>>
        /\ dragFromIndex' = <<out.scheduleItems[k].blockIndex>>
        /\ arg' = [row |-> k - 1]
    /\ blockHeights' = calculateBlockHeights(out.scheduleItems)
    /\ isDragging' = TRUE
    /\ last' = "pointerdown"
    /\ prev' = schedule
    /\ intent' = <<>>
    /\ saved' = FALSE
    /\ UNCHANGED <<heapVars, pageVars, schedule, out, nextId, now, stored>>

\* a pointermove handler that applies the move as soon as the pointer is over another row
PointerMoveCommits ==
    /\ isDragging
    /\ \E y \in PointerYs(blockHeights) :
        LET currentIndex == yToBlockPosition(blockHeights, y)
        IN  /\ <<currentIndex>> # dragFromIndex
            /\ RenderAndSave("pointermove", [y |-> y, currentIndex |-> currentIndex],
                             moveBlock(schedule, dragFromIndex[1], currentIndex), nextId)
            /\ dragFromIndex' = <<currentIndex>>
    /\ intent' = <<>>
    /\ UNCHANGED <<isDragging, dragType, dragBlockId, blockHeights>>

\* handlePointerMove: onDragMove is handleDragUpdate, which does nothing
PointerMove ==
    /\ isDragging
    /\ \E y \in PointerYs(blockHeights) :
        arg' = [y |-> y, currentIndex |-> yToBlockPosition(blockHeights, y)]
    /\ last' = "pointermove"
    /\ prev' = schedule
    /\ intent' = <<>>
    /\ saved' = FALSE
    /\ UNCHANGED <<heapVars, pageVars, schedule, out, nextId, now, stored,
                   isDragging, dragType, dragBlockId, dragFromIndex, blockHeights>>

\* handleDragEnd(dragResult): the move is applied, rendered and saved at once
handleDragEnd(event, dragResult) ==
    RenderAndSave(event, dragResult,
                  moveBlock(schedule, dragResult.fromIndex, dragResult.toIndex), nextId)

\* handlePointerUp(e), the listener of both pointerup and pointercancel
handlePointerUp(event, y) ==
    /\ isDragging
    /\ LET toIndex == yToBlockPosition(blockHeights, y)
           dragResult == [type |-> dragType[1], blockId |-> dragBlockId[1],
                          fromIndex |-> dragFromIndex[1], toIndex |-> toIndex]
       IN  IF <<toIndex>> # dragFromIndex
           THEN /\ intent' = <<dragResult>>
                /\ handleDragEnd(event, dragResult)
           ELSE /\ intent' = <<>>
                /\ saved' = FALSE
                /\ last' = event
                /\ prev' = schedule
                /\ arg' = dragResult
                /\ UNCHANGED <<heapVars, pageVars, schedule, out, nextId, now, stored>>
    /\ NoDrag

PointerUp == \E y \in PointerYs(blockHeights) : handlePointerUp("pointerup", y)

PointerCancel == \E y \in PointerYs(blockHeights) : handlePointerUp("pointercancel", y)

\* cancelDrag(): the drag state is reset and the listeners are removed
CancelDrag ==
    /\ NoDrag
    /\ last' = "cancelDrag"
    /\ prev' = schedule
    /\ arg' = <<>>
    /\ intent' = <<>>
    /\ saved' = FALSE
    /\ UNCHANGED <<heapVars, pageVars, schedule, out, nextId, now, stored>>

NextDrag ==
    \/ HandleAddTechBreak
    \/ HandleDeleteTechBreak
    \/ SaveSlot
    \/ PointerDown
    \/ PointerMove
    \/ PointerUp
    \/ PointerCancel
    \/ CancelDrag

SpecDrag == InitDrag /\ [][NextDrag]_vars

----------------------------------------------------------------------------
(* Filling a day: the open slots are booked one after the other, with tech     *)
(* breaks added in between                                                   *)

TechBreakCount(blocks) == Cardinality({k \in 1..Len(blocks) : blocks[k].type = TECH_BREAK})

\* saveSlot() on the first open slot of the rendered day
BookFirstOpenSlot ==
    /\ now < MaxSaves
    /\ Len(out.slots) > 0
    /\ \E form \in Forms : saveSlot(out.slots[1], form)
    /\ intent' = <<>>
    /\ UNCHANGED <<isDragging, dragType, dragBlockId, dragFromIndex, blockHeights>>

\* handleAddTechBreak() at any moment of the filling
AddTechBreakWhileBooking ==
    /\ now < MaxSaves
    /\ TechBreakCount(schedule.blocks) < MaxTime
    /\ RenderAndSave("handleAddTechBreak", [position |-> 1],
                     addTechBreak(schedule, TRUE, 1, generateId(nextId)), nextId + 1)
    /\ intent' = <<>>
    /\ UNCHANGED <<isDragging, dragType, dragBlockId, dragFromIndex, blockHeights>>

NextBook ==
    \/ BookFirstOpenSlot
    \/ AddTechBreakWhileBooking

SpecBook == InitDrag /\ [][NextBook]_vars

----------------------------------------------------------------------------
(* The operations of the core called on objects *)

\* createInitialState() with the lunch at any requested position
InitHeap ==
    /\ \E p \in LunchPositions :
        \E d \in {createDefaultBlocks(p, 1)} :
            \E n \in {NewObject(EmptyHeap, NewSchedule(d.blocks))} :
                /\ heap = n.heap
                /\ cur = n.ref
                /\ schedule = NewSchedule(d.blocks)
                /\ nextId = d.idc
    /\ call = NoCall
    /\ out = EmptyOutput
    /\ now = 0
    /\ last = "init"
    /\ prev = schedule
    /\ arg = <<>>
    /\ isDragging = FALSE
    /\ dragType = <<>>
    /\ dragBlockId = <<>>
    /\ dragFromIndex = <<>>
    /\ blockHeights = <<>>
    /\ stored = <<>>
    /\ intent = <<>>
    /\ saved = FALSE
    /\ PagesIdle

\* state.schedule = op(state.schedule, ...): schedule is the argument as the call
\* leaves it, prev the argument as it was given
Call(op, res, idc) ==
    /\ now < MaxTime
    /\ heap' = res.heap
    /\ call' = [arg |-> cur, result |-> res.ref, before |-> heap]
    /\ cur' = res.ref
    /\ schedule' = Value(res.heap, cur)
    /\ prev' = Value(heap, cur)
    /\ nextId' = idc
    /\ now' = now + 1
    /\ last' = op
    /\ arg' = <<>>
    /\ UNCHANGED <<out, dragVars, pageVars>>

InsertBlockRef ==
    \E a \in {[position |-> 0, type |-> LUNCH], [position |-> Len(schedule.blocks), type |-> SLOT]} :
        Call("insertBlock", insertBlockRef(heap, cur, a.position, a.type, generateId(nextId)), nextId + 1)

RemoveBlockRef ==
    \/ \E idx \in LastIndex(Value(heap, cur)) :
        Call("removeBlock", removeBlockRef(heap, cur, TRUE, idx), nextId)
    \/ Call("removeBlock", removeBlockRef(heap, cur, FALSE, "lunch"), nextId)

MoveBlockRef ==
    \E fromIndex \in {0} \cup LastIndex(Value(heap, cur)), toIndex \in {0} \cup LastIndex(Value(heap, cur)) :
        /\ fromIndex # toIndex
        /\ Call("moveBlock", moveBlockRef(heap, cur, fromIndex, toIndex), nextId)

MoveLunchRef == Call("moveLunch", moveLunchRef(heap, cur, 0), nextId)

MoveTechBreakRef ==
    \E id \in TechBreakIds(Value(heap, cur)) \cup {"ghost"} :
        Call("moveTechBreak", moveTechBreakRef(heap, cur, id, 0), nextId)

BookAppointmentRef ==
    \E id \in LastBlockId(Value(heap, cur)) :
        Call("bookAppointment", bookAppointmentRef(heap, cur, id, DetailsFull, now), nextId)

ClearAppointmentRef ==
    \E id \in DOMAIN Value(heap, cur).appointments \cup {"ghost"} :
        Call("clearAppointment", clearAppointmentRef(heap, cur, id), nextId)

MoveAppointmentRef ==
    \E from \in DOMAIN Value(heap, cur).appointments \cup {"ghost"}, to \in FirstSlotId(Value(heap, cur)) :
        Call("moveAppointment", moveAppointmentRef(heap, cur, from, to), nextId)

ReflowRef ==
    /\ last # "reflow"
    /\ \E res \in {reflowRef(heap, cur, nextId)} :
        /\ heap' = res.heap
        /\ call' = [arg |-> cur, result |-> cur, before |-> heap]
        /\ schedule' = Value(res.heap, cur)
        /\ prev' = Value(heap, cur)
        /\ nextId' = migrateOldScheduleFormat(Value(heap, cur), nextId).idc
    /\ last' = "reflow"
    /\ arg' = <<>>
    /\ UNCHANGED <<cur, now, out, dragVars, pageVars>>

NextHeap ==
    \/ InsertBlockRef
    \/ RemoveBlockRef
    \/ MoveBlockRef
    \/ MoveLunchRef
    \/ MoveTechBreakRef
    \/ BookAppointmentRef
    \/ ClearAppointmentRef
    \/ MoveAppointmentRef
    \/ ReflowRef

SpecHeap == InitHeap /\ [][NextHeap]_vars

----------------------------------------------------------------------------
(* Calendar dates and the documents of Firestore *)

\* the bound on the sign-ins of one run
MaxLogins == 2

\* two days of the calendar, as Date objects (month counted from zero)
Day1 == [year |-> 2026, month |-> 10, day |-> 9]
Day2 == [year |-> 2026, month |-> 10, day |-> 10]
Days == {Day1, Day2}

\* formatLocalDate(date): 'YYYY-MM-DD' in local time
formatLocalDate(d) ==
    NumberToString(d.year) \o <<"-">> \o PadStart2(NumberToString(d.month + 1))
        \o <<"-">> \o PadStart2(NumberToString(d.day))

Date1 == formatLocalDate(Day1)
Date2 == formatLocalDate(Day2)
Dates == {formatLocalDate(d) : d \in Days}

\* dateStr.substring(0, 7)
monthKey(dateStr) == SubSeq(dateStr, 1, Min(7, Len(dateStr)))

MonthKeys == {monthKey(d) : d \in Dates}

\* the collection 'pharmacies': <<>> when the document does not exist
PharmacyDoc(id) ==
    CASE id = "p1" -> <<[active |-> TRUE, name |-> "Farmacia Central"]>>
      [] id = "p2" -> <<[active |-> TRUE, name |-> "Farmacia Nova"]>>
      [] id = "p3" -> <<[active |-> FALSE, name |-> "Farmacia Antiga"]>>
      [] OTHER -> <<>>

PharmacyIds == {"p1", "p2", "p3", "p9"}

\* the collection 'users'
UserDoc(uid) ==
    IF uid = "uid-ana" THEN <<[name |-> "Ana", role |-> "owner"]>> ELSE <<>>

\* `${id}@medik8.local`
PharmacyEmail(id) == <<id, "@medik8.local">>

AdminEmail == <<"ana", "@skinselflove.pt">>

Pin1234 == <<"1", "2", "3", "4">>
Pin9999 == <<"9", "9", "9", "9">>
Pin12 == <<"1", "2">>
Pins == {Pin1234, Pin9999, Pin12}

AdminPassword == <<"s", "e", "g", "r", "e", "d", "o">>

\* pin.length < 6 ? `${pin}00` : pin
PinPassword(pin) == IF Len(pin) < 6 THEN pin \o <<"0", "0">> ELSE pin

\* the accounts of Firebase Auth: the pharmacies were migrated with the padded PIN
Accounts ==
    {[uid |-> "uid-p1", email |-> PharmacyEmail("p1"), password |-> <<"1", "2", "3", "4", "0", "0">>],
     [uid |-> "uid-p2", email |-> PharmacyEmail("p2"), password |-> <<"9", "9", "9", "9", "0", "0">>],
     [uid |-> "uid-p3", email |-> PharmacyEmail("p3"), password |-> <<"9", "9", "9", "9", "0", "0">>],
     [uid |-> "uid-ana", email |-> AdminEmail, password |-> AdminPassword]}

\* signInWithEmailAndPassword(auth, email, password): the user, or the error thrown
signInWithEmailAndPassword(email, password) ==
    LET found == {a \in Accounts : a.email = email /\ a.password = password}
    IN  IF found = {} THEN [ok |-> FALSE, code |-> "auth/invalid-credential"]
        ELSE [ok |-> TRUE, user |-> [uid |-> (CHOOSE a \in found : TRUE).uid, email |-> email]]

\* a document of the collection 'dateAssignments', as assignDates writes it
AssignmentDoc(pharmacyId, dateStr, time) ==
    [pharmacyId |-> pharmacyId, pharmacyName |-> PharmacyDoc(pharmacyId)[1].name,
     date |-> dateStr, assignedAt |-> time]

----------------------------------------------------------------------------
(* Sessions (auth.js) and the login modal (login.js) *)

\* the session loginPharmacy stores
PharmacySession(id, data, time) ==
    [isAdmin |-> FALSE, pharmacyId |-> id, name |-> data.name, loginAt |-> time]

\* the session loginAdmin stores: name from the user document or the local part of the email
AdminSession(user, userDoc, time) ==
    [isAdmin |-> TRUE, uid |-> user.uid, email |-> user.email,
     name |-> IF userDoc # <<>> THEN userDoc[1].name ELSE user.email[1],
     role |-> IF userDoc # <<>> THEN userDoc[1].role ELSE "viewer",
     loginAt |-> time]

\* the session the auth-state callback of initAuth stores
SyncedSession(user, userDoc, time) ==
    [isAdmin |-> TRUE, uid |-> user.uid, email |-> user.email,
     name |-> IF userDoc # <<>> THEN userDoc[1].name ELSE user.email[1] \o user.email[2],
     role |-> IF userDoc # <<>> THEN userDoc[1].role ELSE "admin",
     loginAt |-> time]

\* !session || session.uid !== user.uid
SessionMismatch(sess, user) ==
    \/ sess = <<>>
    \/ "uid" \notin DOMAIN sess[1]
    \/ sess[1].uid # user.uid

\* a check that lets a pharmacy in on every assigned date
checkDateAssignmentAnyPharmacy(sess, dateStr, docs, failed) ==
    IF sess = <<>> THEN [allowed |-> FALSE, reason |-> "unauthorized"]
    ELSE IF sess[1].isAdmin THEN [allowed |-> TRUE]
    ELSE IF failed THEN [allowed |-> FALSE, reason |-> "error"]
    ELSE IF docs[dateStr] = <<>> THEN [allowed |-> FALSE, reason |-> "dateNotAssigned"]
    ELSE [allowed |-> TRUE]

\* checkDateAssignment(dateStr) with the session of localStorage and the documents
\* of dateAssignments; failed: getDoc rejects
checkDateAssignment(sess, dateStr, docs, failed) ==
    IF sess = <<>> THEN [allowed |-> FALSE, reason |-> "unauthorized"]
    ELSE IF sess[1].isAdmin THEN [allowed |-> TRUE]
    ELSE IF failed THEN [allowed |-> FALSE, reason |-> "error"]
    ELSE IF docs[dateStr] = <<>> THEN [allowed |-> FALSE, reason |-> "dateNotAssigned"]
    ELSE IF docs[dateStr][1].pharmacyId # sess[1].pharmacyId
        THEN [allowed |-> FALSE, reason |-> "dateAssignedToOther"]
    ELSE [allowed |-> TRUE]

SchedulerIdle ==
    /\ schedule = InitialSchedule
    /\ out = EmptyOutput
    /\ nextId = 13
    /\ now = 0
    /\ last = "init"
    /\ prev = InitialSchedule
    /\ arg = <<>>

DragIdle ==
    /\ isDragging = FALSE
    /\ dragType = <<>>
    /\ dragBlockId = <<>>
    /\ dragFromIndex = <<>>
    /\ blockHeights = <<>>
    /\ stored = <<>>
    /\ intent = <<>>
    /\ saved = FALSE

HeapIdle ==
    /\ heap = EmptyHeap
    /\ cur = 0
    /\ call = NoCall

LoginIdle(result) == [pc |-> "idle", result |-> result]

\* the page loads with nobody signed in: initLogin registers the auth-state callback,
\* finds no session and shows the modal; Date1 is assigned to p1, Date2 to p2 or nobody
InitAuth ==
    /\ SchedulerIdle
    /\ DragIdle
    /\ HeapIdle
    /\ AppIdle
    /\ AdminIdle
    /\ session = <<>>
    /\ authUser = <<>>
    /\ authEvents = << <<>> >>
    /\ authFetches = {}
    /\ login = LoginIdle("none")
    /\ modalVisible = TRUE
    /\ verdict = <<>>
    /\ \E second \in {<<>>, <<AssignmentDoc("p2", Date2, 0)>>} :
        assignmentDocs = [d \in Dates |-> IF d = Date1 THEN <<AssignmentDoc("p1", Date1, 0)>> ELSE second]
    /\ schedules = <<>>
    /\ monthAvailability = <<>>

AuthFrame == UNCHANGED <<schedule, out, nextId, prev, dragVars, heapVars, storeVars, appVars, adminVars>>

\* a page load: the callbacks of the page before are gone, initAuth registers the
\* callback (Firebase reports the persisted user to it), initLogin shows the modal
\* unless a session is stored
LoadPage(sess, user) ==
    /\ authEvents' = <<user>>
    /\ authFetches' = {}
    /\ modalVisible' = (sess = <<>>)

\* handleLogin, pharmacy mode: a PIN that is not four characters long is refused,
\* otherwise loginPharmacy runs up to its first await
HandleLoginPharmacy ==
    /\ modalVisible
    /\ login.pc = "idle"
    /\ now < MaxLogins
    /\ \E id \in PharmacyIds, pin \in Pins :
        /\ login' = IF Len(pin) # 4 THEN LoginIdle("enterPinError")
                    ELSE [pc |-> "getDoc", id |-> id, pin |-> pin]
        /\ arg' = [before |-> session, id |-> id, pin |-> pin]
    /\ now' = now + 1
    /\ last' = "handleLogin"
    /\ UNCHANGED <<session, authUser, authEvents, authFetches, modalVisible, verdict>>
    /\ AuthFrame

\* loginPharmacy after getDoc(pharmacies/id): not found, inactive, or on to the sign-in
LoginPharmacyGotDoc ==
    /\ login.pc = "getDoc"
    /\ \E failed \in BOOLEAN :
        /\ login' = IF failed THEN LoginIdle("network_error")
                    ELSE IF PharmacyDoc(login.id) = <<>> THEN LoginIdle("pharmacy_not_found")
                    ELSE IF ~PharmacyDoc(login.id)[1].active THEN LoginIdle("pharmacy_inactive")
                    ELSE [login EXCEPT !.pc = "signIn"]
        /\ arg' = [before |-> session, failed |-> failed]
    /\ last' = "loginPharmacy"
    /\ UNCHANGED <<session, authUser, authEvents, authFetches, modalVisible, verdict, now>>
    /\ AuthFrame

\* Firebase Auth settles the sign-in of loginPharmacy: the observers are told of the
\* user, the continuation of loginPharmacy is yet to run
LoginPharmacySignedIn ==
    /\ login.pc = "signIn"
    /\ \E r \in {signInWithEmailAndPassword(PharmacyEmail(login.id), PinPassword(login.pin))} :
        IF r.ok
        THEN /\ authUser' = <<r.user>>
             /\ authEvents' = Append(authEvents, <<r.user>>)
             /\ login' = [login EXCEPT !.pc = "store"]
        ELSE /\ login' = LoginIdle("invalid_pin")
             /\ UNCHANGED <<authUser, authEvents>>
    /\ last' = "signIn"
    /\ arg' = [before |-> session]
    /\ UNCHANGED <<session, authFetches, modalVisible, verdict, now>>
    /\ AuthFrame

\* loginPharmacy stores the session; handleLogin hides the modal and reloads the page
LoginPharmacyStore ==
    /\ login.pc = "store"
    /\ session' = <<PharmacySession(login.id, PharmacyDoc(login.id)[1], now)>>
    /\ LoadPage(session', authUser)
    /\ login' = LoginIdle("success")
    /\ last' = "loginPharmacy"
    /\ arg' = [before |-> session, stored |-> TRUE]
    /\ UNCHANGED <<authUser, verdict, now>>
    /\ AuthFrame

\* handleLogin, admin mode: loginAdmin up to the settled sign-in
HandleLoginAdmin ==
    /\ modalVisible
    /\ login.pc = "idle"
    /\ now < MaxLogins
    /\ \E password \in {AdminPassword, Pin1234} :
        \E r \in {signInWithEmailAndPassword(AdminEmail, password)} :
            /\ IF r.ok
               THEN /\ authUser' = <<r.user>>
                    /\ authEvents' = Append(authEvents, <<r.user>>)
                    /\ login' = [pc |-> "adminGetDoc", user |-> r.user]
               ELSE /\ login' = LoginIdle(r.code)
                    /\ UNCHANGED <<authUser, authEvents>>
            /\ arg' = [before |-> session, password |-> password]
    /\ now' = now + 1
    /\ last' = "handleLogin"
    /\ UNCHANGED <<session, authFetches, modalVisible, verdict>>
    /\ AuthFrame

\* loginAdmin after getDoc(users/uid): the session is stored and the page reloads,
\* or getDoc rejects and the login fails
LoginAdminStore ==
    /\ login.pc = "adminGetDoc"
    /\ \E failed \in BOOLEAN :
        /\ IF failed
           THEN /\ login' = LoginIdle("unavailable")
                /\ UNCHANGED <<session, authEvents, authFetches, modalVisible>>
           ELSE /\ session' = <<AdminSession(login.user, UserDoc(login.user.uid), now)>>
                /\ LoadPage(session', authUser)
                /\ login' = LoginIdle("success")
        /\ arg' = [before |-> session, failed |-> failed]
    /\ last' = "loginAdmin"
    /\ UNCHANGED <<authUser, verdict, now>>
    /\ AuthFrame

\* logout(): sign out, remove the session, open index.html
Logout ==
    /\ session # <<>>
    /\ login.pc = "idle"
    /\ authUser' = <<>>
    /\ session' = <<>>
    /\ LoadPage(session', authUser')
    /\ last' = "logout"
    /\ arg' = [before |-> session]
    /\ UNCHANGED <<login, verdict, now>>
    /\ AuthFrame

\* the user reloads the page
Reload ==
    /\ login.pc = "idle"
    /\ LoadPage(session, authUser)
    /\ last' = "reload"
    /\ arg' = [before |-> session]
    /\ UNCHANGED <<session, authUser, login, verdict, now>>
    /\ AuthFrame

\* the auth-state callback of initAuth, up to its await or to its end
AuthStateChanged ==
    /\ authEvents # <<>>
    /\ authEvents' = Tail(authEvents)
    /\ LET user == Head(authEvents)
       IN  IF user # <<>>
           THEN /\ authFetches' = IF SessionMismatch(session, user[1])
                                  THEN authFetches \cup {user[1]} ELSE authFetches
                /\ UNCHANGED session
           ELSE /\ session' = IF session # <<>> /\ session[1].isAdmin THEN <<>> ELSE session
                /\ UNCHANGED authFetches
    /\ last' = "onAuthStateChanged"
    /\ arg' = [before |-> session, user |-> Head(authEvents)]
    /\ UNCHANGED <<authUser, login, modalVisible, verdict, now>>
    /\ AuthFrame

\* the auth-state callback after getDoc(users/uid): it stores a session for the user,
\* or getDoc rejects and nothing is stored
AuthStateSynced ==
    \E user \in authFetches :
        /\ authFetches' = authFetches \ {user}
        /\ \E failed \in BOOLEAN :
            /\ session' = IF failed THEN session ELSE <<SyncedSession(user, UserDoc(user.uid), now)>>
            /\ arg' = [before |-> session, user |-> <<user>>, failed |-> failed]
        /\ last' = "onAuthStateChanged"
        /\ UNCHANGED <<authUser, authEvents, login, modalVisible, verdict, now>>
        /\ AuthFrame

\* checkDateAssignment(dateStr)
CheckDateAssignment ==
    /\ \E dateStr \in Dates, failed \in BOOLEAN :
        /\ verdict' = <<checkDateAssignment(session, dateStr, assignmentDocs, failed)>>
        /\ arg' = [before |-> session, dateStr |-> dateStr, failed |-> failed]
    /\ last' = "checkDateAssignment"
    /\ UNCHANGED <<session, authUser, authEvents, authFetches, login, modalVisible, now>>
    /\ AuthFrame

NextAuth ==
    \/ HandleLoginPharmacy
    \/ LoginPharmacyGotDoc
    \/ LoginPharmacySignedIn
    \/ LoginPharmacyStore
    \/ HandleLoginAdmin
    \/ LoginAdminStore
    \/ Logout
    \/ Reload
    \/ AuthStateChanged
    \/ AuthStateSynced
    \/ CheckDateAssignment

SpecAuth == InitAuth /\ [][NextAuth]_vars

----------------------------------------------------------------------------
(* The schedule page (app.js) on Firestore, and cancelReservation of admin.js *)

\* the bound on the loadScheduleFromFirebase calls of one run
MaxLoads == 2

\* the bound on the saves and cancellations of one run
MaxOps == 1

\* the details saveSlot builds from the form of the drawer
FormDetails(form) ==
    [name |-> form.name, contact |-> form.contact, notes |-> form.notes,
     status |-> IF form.status = <<>> THEN "scheduled" ELSE form.status[1]]

\* the schedule left by n bookings, each on the first open slot of the day
RECURSIVE BookFirstSlots(_, _, _)
BookFirstSlots(s, n, details) ==
    IF n = 0 THEN s
    ELSE LET booked == BookFirstSlots(s, n - 1, details)
             open == {k \in 1..Len(s.blocks) :
                        s.blocks[k].type = SLOT /\ ~IsBooked(booked.appointments, s.blocks[k].id)}
             first == CHOOSE k \in open : \A j \in open : k <= j
         IN  bookAppointment(booked, s.blocks[first].id, details, 0)

\* a stored day of the default layout with all its slots booked but the last `open`
StoredDay(open) ==
    BookFirstSlots(InitialSchedule, Cardinality(SlotIds(InitialSchedule)) - open,
                   FormDetails(CHOOSE f \in Forms : TRUE))

NoMonthData == [d \in {} |-> "full"]

\* an async function of the page waiting at an await: fn names the await, docId the
\* document it works on, k the call of loadScheduleFromFirebase; isFull, monthData,
\* blockId and appointments are the locals it carries.  Two calls waiting with equal
\* locals are one entry.
Task(fn, docId) ==
    [fn |-> fn, docId |-> docId, k |-> 0, isFull |-> FALSE, monthData |-> NoMonthData,
     blockId |-> "", appointments |-> NoAppointments]

\* updateAvailabilityStatus(dateStr) up to its first await: isFull is computed from
\* state.schedule, the read of the month document is in flight
UpdateAvailabilityStarted(dateStr, output) ==
    [Task("updateRead", dateStr) EXCEPT !.isFull = isFull(output)]

\* Firestore tells the listeners of a document of a write to it
Notified(ls, docId) == {[l EXCEPT !.pending = l.pending \/ l.docId = docId] : l \in ls}

\* monthData[dateStr] = 'full', or delete monthData[dateStr]
MarkedMonth(monthData, dateStr, full) ==
    IF full THEN SetKey(monthData, dateStr, "full") ELSE DeleteKey(monthData, dateStr)

\* DOMContentLoaded up to the await of the first loadScheduleFromFirebase: the default
\* state is rendered and the fetch of today's document is in flight.  Stored: today
\* with one open slot left, the other day absent or full and marked 'full'.
InitApp ==
    /\ DragIdle
    /\ HeapIdle
    /\ AuthIdle
    /\ AdminIdle
    /\ \E d \in {createDefaultBlocks(4, 1)} :
        \E r \in {reflow(NewSchedule(d.blocks), d.idc)} :
            /\ schedule = r.schedule
            /\ nextId = r.idc
            /\ out = r.output
            /\ prev = r.schedule
    /\ now = 0
    /\ last = "init"
    /\ arg = <<>>
    /\ date = Date1
    /\ unsubscribeSnapshot = <<>>
    /\ listeners = {}
    /\ tasks = {[Task("load", Date1) EXCEPT !.k = 1]}
    /\ origin = <<>>
    /\ availabilityCache = [m \in {} |-> NoMonthData]
    /\ loads = 1
    /\ assignmentDocs = <<>>
    /\ \E otherFull \in BOOLEAN :
        /\ schedules = [d \in Dates |-> IF d = Date1 THEN <<StoredDay(1)>>
                                        ELSE IF otherFull THEN <<StoredDay(0)>> ELSE <<>>]
        /\ monthAvailability = [m \in MonthKeys |->
                                    IF otherFull THEN <<SetKey(NoMonthData, Date2, "full")>> ELSE <<>>]

AppFrame == UNCHANGED <<prev, dragVars, heapVars, authVars, adminVars, assignmentDocs>>

\* state.schedule = data; renderSchedule()
Rendered(s, idc) ==
    \E r \in {reflow(s, idc)} :
        /\ schedule' = r.schedule
        /\ nextId' = r.idc
        /\ out' = r.output

\* changeDate(newDateStr) up to the await inside loadScheduleFromFirebase: the old
\* listener is removed, a fresh state is rendered, the fetch of the new date starts
ChangeDate ==
    /\ loads < MaxLoads
    /\ \E newDateStr \in Dates \ {date} :
        /\ date' = newDateStr
        /\ tasks' = tasks \cup {[Task("load", newDateStr) EXCEPT !.k = loads + 1]}
        /\ arg' = [newDateStr |-> newDateStr]
    /\ listeners' = {l \in listeners : unsubscribeSnapshot # <<l.k>>}
    /\ unsubscribeSnapshot' = <<>>
    /\ \E d \in {createDefaultBlocks(4, nextId)} : Rendered(NewSchedule(d.blocks), d.idc)
    /\ origin' = <<>>
    /\ loads' = loads + 1
    /\ last' = "changeDate"
    /\ UNCHANGED <<now, schedules, monthAvailability, availabilityCache>>
    /\ AppFrame

\* loadScheduleFromFirebase after its await: the fetched document, if it came in
\* time and exists, becomes state.schedule; then the listener of docId is registered
LoadFetched ==
    \E t \in {x \in tasks : x.fn = "load"}, inTime \in BOOLEAN :
        /\ tasks' = tasks \ {t}
        /\ IF inTime /\ schedules[t.docId] # <<>>
           THEN /\ Rendered(schedules[t.docId][1], nextId)
                /\ origin' = <<t.docId>>
           ELSE UNCHANGED <<schedule, nextId, out, origin>>
        /\ unsubscribeSnapshot' = <<t.k>>
        /\ listeners' = listeners \cup {[k |-> t.k, docId |-> t.docId, pending |-> TRUE]}
        /\ last' = "loadScheduleFromFirebase"
        /\ arg' = [docId |-> t.docId, inTime |-> inTime]
        /\ UNCHANGED <<now, date, loads, schedules, monthAvailability, availabilityCache>>
        /\ AppFrame

\* the callback of onSnapshot: the document becomes state.schedule and
\* updateAvailabilityStatus(docId) starts
OnSnapshot ==
    \E l \in {x \in listeners : x.pending} :
        /\ listeners' = (listeners \ {l}) \cup {[l EXCEPT !.pending = FALSE]}
        /\ IF schedules[l.docId] # <<>>
           THEN \E r \in {reflow(schedules[l.docId][1], nextId)} :
                    /\ schedule' = r.schedule
                    /\ nextId' = r.idc
                    /\ out' = r.output
                    /\ origin' = <<l.docId>>
                    /\ tasks' = tasks \cup {UpdateAvailabilityStarted(l.docId, r.output)}
           ELSE UNCHANGED <<schedule, nextId, out, origin, tasks>>
        /\ last' = "onSnapshot"
        /\ arg' = [docId |-> l.docId]
        /\ UNCHANGED <<now, date, loads, unsubscribeSnapshot, schedules, monthAvailability, availabilityCache>>
        /\ AppFrame

\* saveScheduleToFirebase() up to its first await: state.schedule is written under
\* state.date
SaveStarted(op, a, s) ==
    /\ Rendered(s, nextId)
    /\ schedules' = [schedules EXCEPT ![date] = <<schedule'>>]
    /\ listeners' = Notified(listeners, date)
    /\ tasks' = tasks \cup {Task("save", date)}
    /\ now' = now + 1
    /\ last' = op
    /\ arg' = a
    /\ UNCHANGED <<date, loads, origin, unsubscribeSnapshot, monthAvailability, availabilityCache>>
    /\ AppFrame

\* saveSlot() on the first open slot of the rendered day
SaveOpenSlot ==
    /\ now < MaxOps
    /\ out.slots # <<>>
    /\ \E form \in Forms :
        SaveStarted("saveSlot", [docId |-> date, origin |-> origin, id |-> out.slots[1].id],
                    bookAppointment(schedule, out.slots[1].id, FormDetails(form), now))

\* handleClearAppointment(appointmentId) on the first booking of the rendered day
ClearAppointmentAndSave ==
    /\ now < MaxOps
    /\ out.appointments # <<>>
    /\ SaveStarted("handleClearAppointment",
                   [docId |-> date, origin |-> origin, id |-> out.appointments[1].id],
                   clearAppointment(schedule, out.appointments[1].id))

\* saveScheduleToFirebase after await setDoc: updateAvailabilityStatus(docId) starts
SaveWritten ==
    \E t \in {x \in tasks : x.fn = "save"} :
        /\ tasks' = (tasks \ {t}) \cup {UpdateAvailabilityStarted(t.docId, reflow(schedule, nextId).output)}
        /\ last' = "saveScheduleToFirebase"
        /\ arg' = [docId |-> t.docId]
        /\ UNCHANGED <<schedule, nextId, out, now, date, loads, origin, unsubscribeSnapshot, listeners,
                       schedules, monthAvailability, availabilityCache>>
        /\ AppFrame

\* updateAvailabilityStatus after await getDoc(monthRef): monthData is changed and
\* its write starts
UpdateAvailabilityRead ==
    \E t \in {x \in tasks : x.fn = "updateRead"} :
        /\ LET monthSnap == monthAvailability[monthKey(t.docId)]
               monthData == IF monthSnap # <<>> THEN monthSnap[1] ELSE NoMonthData
           IN  tasks' = (tasks \ {t}) \cup
                   {[t EXCEPT !.fn = "updateWrite", !.monthData = MarkedMonth(monthData, t.docId, t.isFull)]}
        /\ last' = "updateAvailabilityStatus"
        /\ arg' = [dateStr |-> t.docId, isFull |-> t.isFull]
        /\ UNCHANGED <<schedule, nextId, out, now, date, loads, origin, unsubscribeSnapshot, listeners,
                       schedules, monthAvailability, availabilityCache>>
        /\ AppFrame

\* updateAvailabilityStatus after await setDoc(monthRef, monthData)
UpdateAvailabilityWritten ==
    \E t \in {x \in tasks : x.fn = "updateWrite"} :
        /\ tasks' = tasks \ {t}
        /\ monthAvailability' = [monthAvailability EXCEPT ![monthKey(t.docId)] = <<t.monthData>>]
        /\ availabilityCache' = SetKey(availabilityCache, monthKey(t.docId), t.monthData)
        /\ last' = "updateAvailabilityStatus"
        /\ arg' = [dateStr |-> t.docId, isFull |-> t.isFull, written |-> TRUE]
        /\ UNCHANGED <<schedule, nextId, out, now, date, loads, origin, unsubscribeSnapshot, listeners,
                       schedules>>
        /\ AppFrame

\* cancelReservation(reservationId) of the admin dashboard, confirmed, up to its
\* await getDoc(scheduleRef)
CancelReservation ==
    /\ now < MaxOps
    /\ \E dateStr \in Dates :
        /\ schedules[dateStr] # <<>>
        /\ \E blockId \in FirstSlotId(schedules[dateStr][1]) :
            /\ IsBooked(schedules[dateStr][1].appointments, blockId)
            /\ tasks' = tasks \cup {[Task("cancelRead", dateStr) EXCEPT !.blockId = blockId]}
            /\ arg' = [reservationId |-> <<dateStr, blockId>>]
    /\ now' = now + 1
    /\ last' = "cancelReservation"
    /\ UNCHANGED <<schedule, nextId, out, date, loads, origin, unsubscribeSnapshot, listeners,
                   schedules, monthAvailability, availabilityCache>>
    /\ AppFrame

\* cancelReservation after the read: the appointment is deleted from the copy read
\* and updateDoc(scheduleRef, {appointments}) replaces the stored appointments
CancelReservationRead ==
    \E t \in {x \in tasks : x.fn = "cancelRead"} :
        /\ tasks' = (tasks \ {t}) \cup
                (IF schedules[t.docId] # <<>> /\ t.blockId \in DOMAIN schedules[t.docId][1].appointments
                 THEN {[t EXCEPT !.fn = "cancelWrite",
                                 !.appointments = DeleteKey(schedules[t.docId][1].appointments, t.blockId)]}
                 ELSE {})
        /\ last' = "cancelReservation"
        /\ arg' = [reservationId |-> <<t.docId, t.blockId>>, read |-> TRUE]
        /\ UNCHANGED <<schedule, nextId, out, now, date, loads, origin, unsubscribeSnapshot, listeners,
                       schedules, monthAvailability, availabilityCache>>
        /\ AppFrame

CancelReservationWritten ==
    \E t \in {x \in tasks : x.fn = "cancelWrite"} :
        /\ tasks' = tasks \ {t}
        /\ schedules' = [schedules EXCEPT ![t.docId] =
                            IF @ = <<>> THEN @ ELSE <<[@[1] EXCEPT !.appointments = t.appointments]>>]
        /\ listeners' = Notified(listeners, t.docId)
        /\ last' = "cancelReservation"
        /\ arg' = [reservationId |-> <<t.docId, t.blockId>>, written |-> TRUE]
        /\ UNCHANGED <<schedule, nextId, out, now, date, loads, origin, unsubscribeSnapshot,
                       monthAvailability, availabilityCache>>
        /\ AppFrame

NextApp ==
    \/ ChangeDate
    \/ LoadFetched
    \/ OnSnapshot
    \/ SaveOpenSlot
    \/ ClearAppointmentAndSave
    \/ SaveWritten
    \/ UpdateAvailabilityRead
    \/ UpdateAvailabilityWritten
    \/ CancelReservation
    \/ CancelReservationRead
    \/ CancelReservationWritten

SpecApp == InitApp /\ [][NextApp]_vars

----------------------------------------------------------------------------
(* The date-assignment panel of the admin dashboard (admin.js) *)

\* dateAssignments as loadDateAssignments builds it from the collection
LoadedAssignments(docs) == [d \in {x \in DOMAIN docs : docs[x] # <<>>} |-> docs[d][1]]

\* the day has an appointment with isBooked set
dayHasBookings(doc) ==
    /\ doc # <<>>
    /\ \E id \in DOMAIN doc[1].appointments : IsBooked(doc[1].appointments, id)

\* lockedDates as loadReservations builds it from the collection schedules
LoadedLockedDates(docs) == {d \in DOMAIN docs : dayHasBookings(docs[d])}

\* dates.sort((a, b) => a - b) of updateSelectedDatesList, on the array of the calendar
RECURSIVE SortedDays(_)
SortedDays(days) ==
    IF days = {} THEN <<>>
    ELSE LET Before(a, b) ==
                 \/ a.year < b.year
                 \/ a.year = b.year /\ a.month < b.month
                 \/ a.year = b.year /\ a.month = b.month /\ a.day < b.day
             first == CHOOSE d \in days : \A e \in days \ {d} : Before(d, e)
         IN  <<first>> \o SortedDays(days \ {first})

\* flatpickr in mode 'multiple': a click selects the day or takes it out
ToggledDay(selected, day) ==
    IF \E k \in DOMAIN selected : selected[k] = day
    THEN SelectSeq(selected, LAMBDA d : d # day)
    ELSE Append(selected, day)

\* filterSelectedDatesForPharmacy(): the selection the calendar is left with
RECURSIVE filterSelectedDatesForPharmacy(_, _, _, _)
filterSelectedDatesForPharmacy(selected, pharmacyId, assignments, locked) ==
    IF selected = <<>> THEN <<>>
    ELSE LET ds == formatLocalDate(Head(selected))
             allowed == \/ ds \notin DOMAIN assignments
                        \/ assignments[ds].pharmacyId = pharmacyId
                        \/ ds \notin locked
         IN  (IF allowed THEN <<Head(selected)>> ELSE <<>>)
                \o filterSelectedDatesForPharmacy(Tail(selected), pharmacyId, assignments, locked)

\* onDayCreate marks the day 'date-locked-other': it cannot be clicked
LockedForOther(day, pharmacyId, assignments, locked) ==
    LET ds == formatLocalDate(day)
    IN  /\ ds \in locked
        /\ ds \in DOMAIN assignments
        /\ assignments[ds].pharmacyId # pharmacyId

\* updateAssignButton(): btn.disabled
AssignButtonDisabled(selected, pharmacyId) == selected = <<>> \/ pharmacyId = ""

AdminTask(fn, pharmacyId, dates) == [fn |-> fn, pharmacyId |-> pharmacyId, dates |-> dates]

\* an admin is signed in and the dashboard has run initializeAdmin up to its first
\* await: the calendar is live, nothing is loaded.  Stored: Date1 is assigned to p1
\* and has a booking; Date2 has no booking and is assigned to p1 or to nobody.
InitAdmin ==
    /\ SchedulerIdle
    /\ DragIdle
    /\ HeapIdle
    /\ AppIdle
    /\ \E r \in {signInWithEmailAndPassword(AdminEmail, AdminPassword)} :
        /\ session = <<AdminSession(r.user, UserDoc(r.user.uid), 0)>>
        /\ authUser = <<r.user>>
    /\ authEvents = <<>>
    /\ authFetches = {}
    /\ login = LoginIdle("success")
    /\ modalVisible = FALSE
    /\ verdict = <<>>
    /\ schedules = [d \in Dates |-> IF d = Date1
                                    THEN <<StoredDay(Cardinality(SlotIds(InitialSchedule)) - 1)>>
                                    ELSE <<InitialSchedule>>]
    /\ monthAvailability = <<>>
    /\ \E second \in {<<>>, <<AssignmentDoc("p1", Date2, 0)>>} :
        assignmentDocs = [d \in Dates |-> IF d = Date1 THEN <<AssignmentDoc("p1", Date1, 0)>> ELSE second]
    /\ pharmacies = {}
    /\ dateAssignments = LoadedAssignments(<<>>)
    /\ lockedDates = {}
    /\ selectedDates = <<>>
    /\ assignPharmacySelect = ""
    /\ assignDisabled = TRUE
    /\ adminPc = "loadPharmacies"
    /\ adminTasks = {}

AdminFrame ==
    UNCHANGED <<schedule, out, nextId, now, prev, dragVars, heapVars, authVars, appVars,
                schedules, monthAvailability>>

\* initializeAdmin after await loadPharmacies(): the dropdown is filled
LoadPharmaciesDone ==
    /\ adminPc = "loadPharmacies"
    /\ pharmacies' = {[id |-> id, active |-> PharmacyDoc(id)[1].active, name |-> PharmacyDoc(id)[1].name] :
                        id \in {p \in PharmacyIds : PharmacyDoc(p) # <<>>}}
    /\ assignPharmacySelect' = ""
    /\ adminPc' = "loadDateAssignments"
    /\ last' = "loadPharmacies"
    /\ arg' = <<>>
    /\ UNCHANGED <<assignmentDocs, dateAssignments, lockedDates, selectedDates, assignDisabled, adminTasks>>
    /\ AdminFrame

\* initializeAdmin after await loadDateAssignments()
LoadDateAssignmentsDone ==
    /\ adminPc = "loadDateAssignments"
    /\ dateAssignments' = LoadedAssignments(assignmentDocs)
    /\ adminPc' = "loadReservations"
    /\ last' = "loadDateAssignments"
    /\ arg' = <<>>
    /\ UNCHANGED <<assignmentDocs, pharmacies, lockedDates, selectedDates, assignPharmacySelect,
                   assignDisabled, adminTasks>>
    /\ AdminFrame

\* initializeAdmin after await loadReservations(): the click listener of the assign
\* button and the change listener of the dropdown are attached
LoadReservationsDone ==
    /\ adminPc = "loadReservations"
    /\ lockedDates' = LoadedLockedDates(schedules)
    /\ adminPc' = "ready"
    /\ last' = "loadReservations"
    /\ arg' = <<>>
    /\ UNCHANGED <<assignmentDocs, pharmacies, dateAssignments, selectedDates, assignPharmacySelect,
                   assignDisabled, adminTasks>>
    /\ AdminFrame

\* a click on a day of the calendar (drawn from the state as it is now), then onChange:
\* filterSelectedDatesForPharmacy, updateSelectedDatesList, updateAssignButton
CalendarClick ==
    /\ \E day \in Days :
        /\ ~LockedForOther(day, assignPharmacySelect, dateAssignments, lockedDates)
        /\ \E allowed \in {filterSelectedDatesForPharmacy(ToggledDay(selectedDates, day),
                                assignPharmacySelect, dateAssignments, lockedDates)} :
            /\ selectedDates' = SortedDays({allowed[k] : k \in DOMAIN allowed})
            /\ assignDisabled' = AssignButtonDisabled(selectedDates', assignPharmacySelect)
        /\ arg' = [day |-> day]
    /\ last' = "onChange"
    /\ UNCHANGED <<assignmentDocs, pharmacies, dateAssignments, lockedDates, assignPharmacySelect,
                   adminPc, adminTasks>>
    /\ AdminFrame

\* the admin picks one of the active pharmacies in #assignPharmacySelect; the change
\* listener runs only once initializeAdmin has attached it
SelectPharmacy ==
    /\ \E pharmacyId \in {p.id : p \in {x \in pharmacies : x.active}} \ {assignPharmacySelect} :
        /\ assignPharmacySelect' = pharmacyId
        /\ arg' = [pharmacyId |-> pharmacyId]
        /\ IF adminPc = "ready"
           THEN \E allowed \in {filterSelectedDatesForPharmacy(selectedDates, pharmacyId,
                                    dateAssignments, lockedDates)} :
                    /\ selectedDates' = SortedDays({allowed[k] : k \in DOMAIN allowed})
                    /\ assignDisabled' = AssignButtonDisabled(selectedDates', pharmacyId)
           ELSE UNCHANGED <<selectedDates, assignDisabled>>
    /\ last' = "change"
    /\ UNCHANGED <<assignmentDocs, pharmacies, dateAssignments, lockedDates, adminPc, adminTasks>>
    /\ AdminFrame

\* setDoc(dateAssignments/dateStr) inside the loop of assignDates
AssignmentWritten(pharmacyId, day) ==
    /\ assignmentDocs' = [assignmentDocs EXCEPT ![formatLocalDate(day)] =
                              <<AssignmentDoc(pharmacyId, formatLocalDate(day), now)>>]
    /\ last' = "assignDates"
    /\ arg' = [before |-> assignmentDocs[formatLocalDate(day)], pharmacyId |-> pharmacyId,
               dateStr |-> formatLocalDate(day)]

\* a click on #assignDatesBtn: assignDates() up to its first await
AssignDates ==
    /\ adminPc = "ready"
    /\ ~assignDisabled
    /\ adminTasks = {}
    /\ assignPharmacySelect # ""
    /\ selectedDates # <<>>
    /\ \E p \in pharmacies : p.id = assignPharmacySelect
    /\ AssignmentWritten(assignPharmacySelect, Head(selectedDates))
    /\ adminTasks' = {AdminTask("assignDates", assignPharmacySelect, Tail(selectedDates))}
    /\ UNCHANGED <<pharmacies, dateAssignments, lockedDates, selectedDates, assignPharmacySelect,
                   assignDisabled, adminPc>>
    /\ AdminFrame

\* assignDates after a setDoc: the next date is written
AssignNextDate ==
    \E t \in {x \in adminTasks : x.fn = "assignDates" /\ x.dates # <<>>} :
        /\ AssignmentWritten(t.pharmacyId, Head(t.dates))
        /\ adminTasks' = (adminTasks \ {t}) \cup {[t EXCEPT !.dates = Tail(t.dates)]}
        /\ UNCHANGED <<pharmacies, dateAssignments, lockedDates, selectedDates, assignPharmacySelect,
                       assignDisabled, adminPc>>
        /\ AdminFrame

\* assignDates after the last setDoc: the calendar and the dropdown are reset and
\* loadDateAssignments starts
AssignDatesWritten ==
    \E t \in {x \in adminTasks : x.fn = "assignDates" /\ x.dates = <<>>} :
        /\ selectedDates' = <<>>
        /\ assignPharmacySelect' = ""
        /\ assignDisabled' = AssignButtonDisabled(selectedDates', assignPharmacySelect')
        /\ adminTasks' = (adminTasks \ {t}) \cup {AdminTask("loadDateAssignments", "", <<>>)}
        /\ last' = "assignDatesDone"
        /\ arg' = [pharmacyId |-> t.pharmacyId]
        /\ UNCHANGED <<assignmentDocs, pharmacies, dateAssignments, lockedDates, adminPc>>
        /\ AdminFrame

\* removeAssignment(dateStr), confirmed, from the grid of assigned dates
RemoveAssignment ==
    /\ adminTasks = {}
    /\ \E dateStr \in DOMAIN dateAssignments :
        /\ assignmentDocs' = [assignmentDocs EXCEPT ![dateStr] = <<>>]
        /\ arg' = [dateStr |-> dateStr]
    /\ adminTasks' = {AdminTask("loadDateAssignments", "", <<>>)}
    /\ last' = "removeAssignment"
    /\ UNCHANGED <<pharmacies, dateAssignments, lockedDates, selectedDates, assignPharmacySelect,
                   assignDisabled, adminPc>>
    /\ AdminFrame

\* loadDateAssignments() called by assignDates or removeAssignment, after its await
AssignmentsReloaded ==
    \E t \in {x \in adminTasks : x.fn = "loadDateAssignments"} :
        /\ dateAssignments' = LoadedAssignments(assignmentDocs)
        /\ adminTasks' = adminTasks \ {t}
        /\ last' = "loadDateAssignments"
        /\ arg' = <<>>
        /\ UNCHANGED <<assignmentDocs, pharmacies, lockedDates, selectedDates, assignPharmacySelect,
                       assignDisabled, adminPc>>
        /\ AdminFrame

NextAdmin ==
    \/ LoadPharmaciesDone
    \/ LoadDateAssignmentsDone
    \/ LoadReservationsDone
    \/ CalendarClick
    \/ SelectPharmacy
    \/ AssignDates
    \/ AssignNextDate
    \/ AssignDatesWritten
    \/ RemoveAssignment
    \/ AssignmentsReloaded

SpecAdmin == InitAdmin /\ [][NextAdmin]_vars

----------------------------------------------------------------------------
(* Properties *)

Fits(blocks, n) == TotalDuration(SubSeq(blocks, 1, n)) <= timeToMinutes(DAY_END) - timeToMinutes(DAY_START)

\* C1: after repair (run at the start of reflow) the block list holds exactly one
\* lunch block, whatever the schedule given: no lunch, one, several, or old format.
C1_ExactlyOneLunchAfterRepair ==
    last = "reflow" => LunchCount(schedule.blocks) = 1

C1_SeveralLunchesRepaired ==
    /\ last = "reflow"
    /\ prev.hasBlocks
    /\ LunchCount(prev.blocks) > 1
    /\ LunchCount(schedule.blocks) = 1

\* C2: for every schedule, the defaults for any lunch position and the results of
\* insertBlock/addTechBreak/removeBlock/moveBlock included, the blocks that remain
\* after repair total at most 600 minutes, the span from DAY_START to DAY_END.
C2_TotalAtMostDaySpan ==
    last = "reflow" => TotalDuration(schedule.blocks) <= totalDayMinutes

\* C3: every item reflow emits, in scheduleItems, slots and appointments, starts at
\* or after 09:00 and ends at or before 19:00, and the walk stops at the first
\* block whose end would pass 19:00.
C3_ItemsWithinDay ==
    last = "reflow" =>
        /\ \A k \in 1..Len(out.scheduleItems) :
            /\ timeToMinutes(out.scheduleItems[k].start) >= timeToMinutes(DAY_START)
            /\ timeToMinutes(out.scheduleItems[k].end) <= timeToMinutes(DAY_END)
        /\ \A k \in 1..Len(out.slots) :
            /\ timeToMinutes(out.slots[k].start) >= timeToMinutes(DAY_START)
            /\ timeToMinutes(out.slots[k].end) <= timeToMinutes(DAY_END)
        /\ \A k \in 1..Len(out.appointments) :
            /\ timeToMinutes(out.appointments[k].start) >= timeToMinutes(DAY_START)
            /\ timeToMinutes(out.appointments[k].start) + SLOT_DURATION <= timeToMinutes(DAY_END)
        /\ Fits(schedule.blocks, Len(out.scheduleItems))
        /\ Len(out.scheduleItems) < Len(schedule.blocks) =>
                ~Fits(schedule.blocks, Len(out.scheduleItems) + 1)

C3_WalkStoppedAtDayEnd ==
    /\ last = "reflow"
    /\ Len(out.scheduleItems) < Len(schedule.blocks)
    /\ Len(out.scheduleItems) > 0

\* C4: scheduleItems is ordered by ascending start time, and its ids are the ids of
\* the repaired block list, in the same order, up to the last block that fits.
C4_ItemsFollowBlockOrder ==
    last = "reflow" =>
        /\ \A k \in 1..(Len(out.scheduleItems) - 1) :
            timeToMinutes(out.scheduleItems[k].start) < timeToMinutes(out.scheduleItems[k + 1].start)
        /\ Len(out.scheduleItems) <= Len(schedule.blocks)
        /\ IdSeq(out.scheduleItems) = IdSeq(SubSeq(schedule.blocks, 1, Len(out.scheduleItems)))
        /\ \A k \in 1..Len(out.scheduleItems) : out.scheduleItems[k].blockIndex = k - 1
        /\ \A n \in 1..Len(schedule.blocks) : Fits(schedule.blocks, n) => n <= Len(out.scheduleItems)

C4_ReorderedBlocksReflowed ==
    /\ last = "reflow"
    /\ prev.hasBlocks
    /\ schedule.blocks # prev.blocks
    /\ Len(out.scheduleItems) >= 2
    /\ out.scheduleItems[1].type = LUNCH
    /\ out.scheduleItems[2].type = TECH_BREAK

KeysReferToSlots(s) == DOMAIN s.appointments \subseteq SlotIds(s)

BlockOps == {"insertBlock", "addTechBreak", "removeBlock", "removeTechBreak",
             "moveBlock", "moveLunch", "moveTechBreak"}

\* C5 as stated: after any sequence of operations and a repair, every key of
\* appointments is the id of an existing Slot block (repair removes orphaned keys).
C5_KeysReferToSlotsAfterRepair ==
    last = "reflow" => KeysReferToSlots(schedule)

\* C5 amended: the core never prunes appointment keys.  insertBlock, addTechBreak,
\* removeBlock, removeTechBreak, moveBlock, moveLunch, moveTechBreak and the repair of
\* a schedule that has a blocks array leave the appointments mapping as it was, and
\* clearAppointment only removes the key it is given; so keys that refer to existing
\* Slot blocks still do after insert, move, clear and repair, while the key of a
\* removed slot stays behind and repair does not remove it.
C5_AppointmentsNeverPruned ==
    /\ (last \in BlockOps \cup {"reflow"} /\ prev.hasBlocks) =>
            schedule.appointments = prev.appointments
    /\ last = "clearAppointment" =>
            /\ DOMAIN schedule.appointments = DOMAIN prev.appointments \ {arg.id}
            /\ \A id \in DOMAIN schedule.appointments : schedule.appointments[id] = prev.appointments[id]
    /\ (/\ last \in (BlockOps \ {"removeBlock", "removeTechBreak"}) \cup {"reflow", "clearAppointment"}
        /\ prev.hasBlocks
        /\ KeysReferToSlots(prev)) => KeysReferToSlots(schedule)

C5_OrphanKeySurvivesRepair ==
    /\ last = "reflow"
    /\ prev.hasBlocks
    /\ schedule.appointments # NoAppointments
    /\ ~KeysReferToSlots(prev)
    /\ ~KeysReferToSlots(schedule)
    /\ \E id \in DOMAIN schedule.appointments : id \notin BlockIds(schedule.blocks)

\* C6: when the blocks run past 19:00 and reflow trims from the end, every trimmed
\* slot with a booked appointment is reported in needsReschedule: no booked slot of
\* the block list is absent from both scheduleItems and needsReschedule.
C6_TrimmedBookingsReported ==
    last = "reflow" =>
        \A k \in 1..Len(schedule.blocks) :
            (schedule.blocks[k].type = SLOT /\ IsBooked(schedule.appointments, schedule.blocks[k].id)) =>
                \/ \E n \in 1..Len(out.scheduleItems) : out.scheduleItems[n].id = schedule.blocks[k].id
                \/ \E n \in 1..Len(out.needsReschedule) : out.needsReschedule[n].id = schedule.blocks[k].id

\* C7: a gesture that ends by cancellation (a pointercancel event, or a call of
\* cancelDrag) hands no move-intent to onDragEnd and leaves the block order of the
\* schedule as it was, wherever the pointer was.
C7_CancelEmitsNoMove ==
    last \in {"pointercancel", "cancelDrag"} =>
        /\ intent = <<>>
        /\ schedule.blocks = prev.blocks

\* C8: a drag of a break only enters preview mode: when the drag has ended,
\* state.schedule and the stored schedule are as they were before it (there is no
\* Apply step in the program, so they stay so).
C8_DragOnlyPreviews ==
    (last = "pointerup" /\ arg.type \in {"lunch", "techBreak"}) =>
        /\ schedule = prev
        /\ ~saved

\* C9: for every schedule s and all valid indices i # j (0 <= i, j < length of
\* s.blocks), moveBlock(moveBlock(s, i, j), j, i) has the block order of s.
C9_MoveRoundTrip ==
    /\ (last = "moveBlock" /\ arg.fromIndex # arg.toIndex) =>
            moveBlock(schedule, arg.toIndex, arg.fromIndex).blocks = prev.blocks
    /\ (last \in {"init", "reflow"} /\ schedule.hasBlocks) =>
            \A i \in 0..(Len(schedule.blocks) - 1), j \in 0..(Len(schedule.blocks) - 1) :
                i # j => moveBlock(moveBlock(schedule, i, j), j, i).blocks = schedule.blocks

C9_BlockMovedAcrossList ==
    /\ last = "moveBlock"
    /\ arg.fromIndex = 0
    /\ arg.toIndex = Len(prev.blocks) - 1
    /\ Len(prev.blocks) >= 3
    /\ schedule.blocks # prev.blocks
    /\ schedule.blocks[Len(schedule.blocks)] = prev.blocks[1]

HasField(rec, k) == k \in DOMAIN rec

\* C10 as stated: the appointment read back after bookAppointment has d's name, contact,
\* notes and status with defaults applied (status Scheduled when d gives none), isBooked true.
C10_BookedWithDefaults ==
    last = "bookAppointment" =>
        LET a == getAppointmentById(schedule, arg.id)
            d == arg.details
        IN  /\ a.present
            /\ a.value.isBooked = TRUE
            /\ a.value.name = d.name
            /\ a.value.contact = d.contact
            /\ HasField(d, "notes") => (HasField(a.value, "notes") /\ a.value.notes = d.notes)
            /\ HasField(a.value, "status")
            /\ a.value.status = (IF HasField(d, "status") THEN d.status ELSE "scheduled")

\* C10 amended: the appointment read back after bookAppointment has exactly the fields
\* of d with d's values, plus isBooked = true and createdAt = the time of the call;
\* bookAppointment applies no defaults, so when d gives no status the stored
\* appointment has no status.
C10_BookedAsGiven ==
    last = "bookAppointment" =>
        LET a == getAppointmentById(schedule, arg.id)
            d == arg.details
        IN  /\ a.present
            /\ DOMAIN a.value = DOMAIN d \cup {"isBooked", "createdAt"}
            /\ a.value.isBooked = TRUE
            /\ a.value.createdAt = arg.time
            /\ \A k \in DOMAIN d : a.value[k] = d[k]
            /\ ~HasField(d, "status") => ~HasField(a.value, "status")

C10_BookedWithoutStatus ==
    /\ last = "bookAppointment"
    /\ ~HasField(arg.details, "status")
    /\ arg.id \in DOMAIN schedule.appointments
    /\ schedule.appointments[arg.id].name = arg.details.name
    /\ arg.id \in SlotIds(schedule)

\* C11: after clearAppointment(s, id) on a slot block id, getAppointmentById is
\* absent for id, reflow lists that slot as an open slot, and the block list and
\* the entries of all other ids are unchanged.
C11_ClearedSlotIsOpen ==
    (last = "clearAppointment" /\ arg.id \in SlotIds(prev)) =>
        /\ ~getAppointmentById(schedule, arg.id).present
        /\ schedule.blocks = prev.blocks
        /\ DOMAIN schedule.appointments = DOMAIN prev.appointments \ {arg.id}
        /\ \A id \in DOMAIN schedule.appointments : schedule.appointments[id] = prev.appointments[id]
        /\ \E r \in {reflow(schedule, nextId)} :
                \E k \in 1..Len(r.output.slots) : r.output.slots[k].id = arg.id

\* C12: for every requested lunch position p >= 0 the default block list has exactly
\* one lunch; when p is beyond the slots that fill the day the lunch is still
\* inserted, at the last index.
C12_DefaultHasOneLunch ==
    (last = "init" /\ "lunchPosition" \in DOMAIN arg) =>
        /\ LunchCount(schedule.blocks) = 1
        /\ FirstIndexIn(schedule.blocks, {k \in 1..Len(schedule.blocks) : schedule.blocks[k].type = LUNCH})
                = Min(arg.lunchPosition, Len(schedule.blocks) - 1)

\* C13: reflow, with the repair it runs, leaves the caller's schedule as it was: the
\* same blocks sequence and the same appointments mapping after the call.
C13_ReflowLeavesArgument ==
    last = "reflow" =>
        /\ schedule.blocks = prev.blocks
        /\ schedule.appointments = prev.appointments

\* C15: repair is idempotent: repairing a repaired schedule appends, removes and
\* inserts no block and leaves the appointments as they are.
C15_RepairIdempotent ==
    last = "reflow" =>
        \E again \in {migrateOldScheduleFormat(schedule, nextId)} :
            /\ again.schedule.blocks = schedule.blocks
            /\ again.schedule.appointments = schedule.appointments
            /\ again.idc = nextId

C15_RepairedOnceThenStable ==
    /\ last = "reflow"
    /\ prev.hasBlocks
    /\ LunchCount(prev.blocks) = 0
    /\ Len(schedule.blocks) > Len(prev.blocks) + 1
    /\ migrateOldScheduleFormat(schedule, nextId).schedule.blocks = schedule.blocks

StartOfId(items, id) ==
    timeToMinutes(items[CHOOSE k \in 1..Len(items) : items[k].id = id].start)

LunchMovedToFront ==
    /\ last = "moveLunch"
    /\ arg.toIndex = 0
    /\ prev = InitialSchedule

\* C16 as stated: on the default schedule, moving the lunch from index 4 to index 0
\* makes it start at 09:00, shifts every slot that was before it later by the lunch's
\* prior offset from the day start, and shifts the blocks that were after it earlier.
C16_LaterBlocksShiftEarlier ==
    LunchMovedToFront =>
        \E before \in {reflow(prev, nextId).output.scheduleItems},
           after \in {reflow(schedule, nextId).output.scheduleItems} :
            /\ StartOfId(after, "lunch") = dayStartMin
            /\ \A k \in 1..4 :
                StartOfId(after, before[k].id)
                    = StartOfId(before, before[k].id) + (StartOfId(before, "lunch") - dayStartMin)
            /\ \A k \in 6..Len(before) :
                StartOfId(after, before[k].id) < StartOfId(before, before[k].id)

\* C16 amended: on the default schedule, moving the lunch from index 4 to index 0
\* makes it run from 09:00 to 10:00, shifts each of the four slots that were before
\* it later by the lunch duration (60 minutes), and leaves the start times of the
\* blocks that were after it unchanged.
C16_EarlierSlotsShiftByLunch ==
    LunchMovedToFront =>
        \E before \in {reflow(prev, nextId).output.scheduleItems},
           after \in {reflow(schedule, nextId).output.scheduleItems} :
            /\ Len(before) = 13 /\ Len(after) = 13
            /\ before[5].id = "lunch"
            /\ after[1].id = "lunch"
            /\ after[1].start = <<"0", "9", ":", "0", "0">>
            /\ after[1].end = <<"1", "0", ":", "0", "0">>
            /\ \A k \in 1..4 :
                /\ after[k + 1].id = before[k].id
                /\ StartOfId(after, before[k].id) = StartOfId(before, before[k].id) + LUNCH_DURATION
            /\ \A k \in 6..13 :
                /\ after[k].id = before[k].id
                /\ after[k].start = before[k].start

C16_LunchNowFirst ==
    /\ LunchMovedToFront
    /\ schedule.blocks[1].type = LUNCH
    /\ prev.blocks[5].type = LUNCH

\* C17: the default schedule (lunch at position 4, no appointments) reflows to 13
\* items: 4 slots from 09:00 to 12:00, the lunch from 12:00 to 13:00 and 8 slots from
\* 13:00 to 19:00; 12 open slots, no booked appointment, and the day is not full.
C17_DefaultDayLayout ==
    (last = "reflow" /\ prev = InitialSchedule) =>
        /\ Len(out.scheduleItems) = 13
        /\ \A k \in 1..4 :
            /\ out.scheduleItems[k].type = SLOT
            /\ out.scheduleItems[k].start = minutesToTime(540 + 45 * (k - 1))
        /\ out.scheduleItems[1].start = <<"0", "9", ":", "0", "0">>
        /\ out.scheduleItems[4].end = <<"1", "2", ":", "0", "0">>
        /\ out.scheduleItems[5].type = LUNCH
        /\ out.scheduleItems[5].start = <<"1", "2", ":", "0", "0">>
        /\ out.scheduleItems[5].end = <<"1", "3", ":", "0", "0">>
        /\ \A k \in 6..13 :
            /\ out.scheduleItems[k].type = SLOT
            /\ out.scheduleItems[k].start = minutesToTime(780 + 45 * (k - 6))
        /\ out.scheduleItems[6].start = <<"1", "3", ":", "0", "0">>
        /\ out.scheduleItems[13].end = <<"1", "9", ":", "0", "0">>
        /\ Len(out.slots) = 12
        /\ Len(out.appointments) = 0
        /\ ~isFull(out)

C17_DefaultDayReflowed ==
    /\ last = "reflow"
    /\ prev = InitialSchedule
    /\ Len(out.scheduleItems) = 13
    /\ schedule.blocks = prev.blocks

\* C20: moveLunch on a schedule without a lunch block, and moveTechBreak with an id
\* that matches no block, return the schedule unchanged.
C20_BreakNotFoundUnchanged ==
    /\ (last = "moveLunch" /\ LunchCount(prev.blocks) = 0) => schedule = prev
    /\ (last = "moveTechBreak" /\ arg.id \notin BlockIds(prev.blocks)) => schedule = prev

C20_MissingBreaksMoved ==
    /\ last = "moveTechBreak"
    /\ arg.id \notin BlockIds(prev.blocks)
    /\ Len(prev.blocks) > 1
    /\ schedule = prev

\* C19: when a gesture ends normally (pointerup) the controller hands exactly one
\* move-intent {fromIndex, toIndex} to onDragEnd if the row under the pointer differs
\* from the index captured at pointerdown, and nothing if they are equal; moveBlock
\* is applied only for that intent, never by pointerdown or pointermove.
C19_IntentOnlyAtGestureEnd ==
    /\ Len(intent) <= 1
    /\ last = "pointerup" =>
        IF arg.toIndex # arg.fromIndex
        THEN /\ intent = <<arg>>
             /\ saved
             /\ schedule.blocks = moveBlock(prev, arg.fromIndex, arg.toIndex).blocks
        ELSE /\ intent = <<>>
             /\ ~saved
             /\ schedule = prev
    /\ last \in {"pointerdown", "pointermove"} =>
        /\ intent = <<>>
        /\ ~saved
        /\ schedule = prev

C19_MoveAppliedAtPointerUp ==
    /\ last = "pointerup"
    /\ Len(intent) = 1
    /\ intent[1].fromIndex # intent[1].toIndex
    /\ schedule.blocks # prev.blocks
    /\ stored = <<schedule>>

EmittedSlotIds(o) ==
    {o.scheduleItems[k].id : k \in {j \in 1..Len(o.scheduleItems) :
        o.scheduleItems[j].type \in {SLOT, "bookedAppointment"}}}

\* C18: the day is full exactly when reflow yields no open slot and at least one
\* booked appointment: once every slot of the rendered day is booked there is no
\* open slot and the day is full, and a schedule without a booking is never full.
C18_FullExactlyWhenAllBooked ==
    /\ isFull(out) <=>
        /\ \A k \in 1..Len(out.scheduleItems) : out.scheduleItems[k].type # SLOT
        /\ \E k \in 1..Len(out.scheduleItems) : out.scheduleItems[k].type = "bookedAppointment"
    /\ (EmittedSlotIds(out) # {} /\ EmittedSlotIds(out) \subseteq DOMAIN schedule.appointments) =>
        /\ Len(out.slots) = 0
        /\ isFull(out)
    /\ DOMAIN schedule.appointments = {} => ~isFull(out)
    /\ Len(out.slots) > 0 => ~isFull(out)

C18_EverySlotBooked ==
    /\ last = "saveSlot"
    /\ Cardinality(DOMAIN schedule.appointments) = 12
    /\ Len(out.slots) = 0
    /\ Len(out.appointments) = 12
    /\ isFull(out)

HeapOps == {"insertBlock", "removeBlock", "moveBlock", "moveLunch", "moveTechBreak",
            "bookAppointment", "clearAppointment", "moveAppointment"}

IsPrefixOf(short, long) == Len(short) <= Len(long) /\ SubSeq(long, 1, Len(short)) = short

\* C14: insertBlock, removeBlock, moveBlock, moveLunch, moveTechBreak, bookAppointment,
\* clearAppointment and moveAppointment never modify the schedule passed to them: the
\* argument (and every object, array and map that existed before the call) is the
\* same after the call, and whatever the call changes is in a new schedule object.
C14_OperationsLeaveArgument ==
    last \in HeapOps =>
        /\ schedule = prev
        /\ IsPrefixOf(call.before.objs, heap.objs)
        /\ IsPrefixOf(call.before.arrs, heap.arrs)
        /\ IsPrefixOf(call.before.maps, heap.maps)
        /\ call.result # call.arg => call.result > Len(call.before.objs)
        /\ call.result = call.arg => heap = call.before
        /\ Value(heap, call.result) # prev => call.result # call.arg

C14_ResultIsNewObject ==
    /\ last = "insertBlock"
    /\ call.result # call.arg
    /\ Value(heap, call.result).blocks # prev.blocks
    /\ Value(heap, call.arg) = prev
    /\ heap.objs[call.result].appointments = heap.objs[call.arg].appointments

\* C21: for every schedule and valid indices fromIndex, toIndex, moveBlock returns a
\* list of the same length with the moved block at index toIndex (read against the
\* list after the removal) and the other blocks in their old relative order; when
\* fromIndex = toIndex the block order is unchanged.
C21_MovedBlockAtToIndex ==
    /\ (last = "moveBlock" /\ arg.fromIndex < Len(prev.blocks) /\ arg.toIndex < Len(prev.blocks)) =>
            /\ Len(schedule.blocks) = Len(prev.blocks)
            /\ schedule.blocks[arg.toIndex + 1] = prev.blocks[arg.fromIndex + 1]
            /\ RemoveAt(schedule.blocks, arg.toIndex) = RemoveAt(prev.blocks, arg.fromIndex)
            /\ arg.fromIndex = arg.toIndex => schedule.blocks = prev.blocks
    /\ (last = "init" /\ schedule.hasBlocks) =>
            \A i \in 0..(Len(schedule.blocks) - 1), j \in 0..(Len(schedule.blocks) - 1) :
                \E moved \in {moveBlock(schedule, i, j).blocks} :
                    /\ Len(moved) = Len(schedule.blocks)
                    /\ moved[j + 1] = schedule.blocks[i + 1]
                    /\ RemoveAt(moved, j) = RemoveAt(schedule.blocks, i)
                    /\ i = j => moved = schedule.blocks

C21_BlockMovedUpTheList ==
    /\ last = "moveBlock"
    /\ arg.toIndex = 0
    /\ arg.fromIndex = Len(prev.blocks) - 1
    /\ Len(prev.blocks) >= 3
    /\ schedule.blocks[1] = prev.blocks[Len(prev.blocks)]
    /\ schedule.blocks[2] = prev.blocks[1]

\* C22: in reflow's output every emitted slot block appears in exactly one of the
\* open slots and the booked appointments: among the booked appointments, with the
\* stored appointment copied, when appointments[blockId] exists with isBooked true,
\* among the open slots otherwise; break blocks appear in neither.
C22_SlotsOpenOrBooked ==
    last = "reflow" =>
        /\ \A k \in 1..Len(out.scheduleItems) :
            LET id == schedule.blocks[k].id
                open == {n \in 1..Len(out.slots) : out.slots[n].blockIndex = k - 1}
                booked == {n \in 1..Len(out.appointments) : out.appointments[n].blockIndex = k - 1}
                hasBooking == /\ id \in DOMAIN schedule.appointments
                              /\ "isBooked" \in DOMAIN schedule.appointments[id]
                              /\ schedule.appointments[id].isBooked = TRUE
            IN  IF schedule.blocks[k].type = SLOT
                THEN /\ Cardinality(open) + Cardinality(booked) = 1
                     /\ hasBooking <=> booked # {}
                     /\ \A n \in open : out.slots[n].id = id
                     /\ \A n \in booked :
                            /\ out.appointments[n].id = id
                            /\ out.appointments[n].data = schedule.appointments[id]
                     /\ out.scheduleItems[k].isBooked = hasBooking
                ELSE /\ open = {}
                     /\ booked = {}
        /\ \A n \in 1..Len(out.slots) : out.slots[n].blockIndex < Len(out.scheduleItems)
        /\ \A n \in 1..Len(out.appointments) : out.appointments[n].blockIndex < Len(out.scheduleItems)

C22_BookedOpenAndBreakEmitted ==
    /\ last = "reflow"
    /\ Len(out.appointments) = 1
    /\ Len(out.slots) >= 1
    /\ out.appointments[1].data.name = "Rui"
    /\ \E k \in 1..Len(out.scheduleItems) : out.scheduleItems[k].type = LUNCH

\* C23: repair pads with slot blocks only while another whole slot fits: after the
\* repair of a schedule whose blocks total at most 600 minutes, the unused capacity
\* (600 minus the total duration) is at least 0 and less than 45 minutes.
C23_UnusedCapacityBelowSlot ==
    (last = "reflow" /\ prev.hasBlocks /\ TotalDuration(prev.blocks) <= 600) =>
        /\ 600 - TotalDuration(schedule.blocks) >= 0
        /\ 600 - TotalDuration(schedule.blocks) < 45

\* C24: the items reflow emits tile the day: the first starts at 09:00, every later
\* item starts where the one before it ends, and each item's end minus its start is
\* 45 for a slot, 60 for the lunch and 15 for a tech break.
C24_ItemsTileTheDay ==
    last = "reflow" =>
        /\ Len(out.scheduleItems) > 0 => out.scheduleItems[1].start = <<"0", "9", ":", "0", "0">>
        /\ \A k \in 2..Len(out.scheduleItems) :
            out.scheduleItems[k].start = out.scheduleItems[k - 1].end
        /\ \A k \in 1..Len(out.scheduleItems) :
            timeToMinutes(out.scheduleItems[k].end) - timeToMinutes(out.scheduleItems[k].start)
                = (CASE out.scheduleItems[k].type = LUNCH -> 60
                     [] out.scheduleItems[k].type = TECH_BREAK -> 15
                     [] OTHER -> 45)
        /\ \A k \in 1..Len(out.scheduleItems) :
            /\ schedule.blocks[k].type = LUNCH => out.scheduleItems[k].type = LUNCH
            /\ schedule.blocks[k].type = TECH_BREAK => out.scheduleItems[k].type = TECH_BREAK
            /\ schedule.blocks[k].type = SLOT => out.scheduleItems[k].type \in {SLOT, "bookedAppointment"}

C24_AllKindsTiled ==
    /\ last = "reflow"
    /\ \E k \in 1..Len(out.scheduleItems) : out.scheduleItems[k].type = LUNCH
    /\ \E k \in 1..Len(out.scheduleItems) : out.scheduleItems[k].type = TECH_BREAK
    /\ \E k \in 1..Len(out.scheduleItems) : out.scheduleItems[k].type = SLOT
    /\ Len(out.scheduleItems) >= 13

\* C25: booked appointments move with their block: moveBlock, insertBlock and
\* removeBlock leave the appointments mapping unchanged, and after a move reflow
\* reports every booking of a slot block on the same block id, with the same
\* payload, at the clock time of the block's new index.
C25_BookingsFollowTheirBlock ==
    /\ last \in {"moveBlock", "insertBlock", "removeBlock"} => schedule.appointments = prev.appointments
    /\ last = "moveBlock" =>
        \E r \in {reflow(schedule, nextId)} :
            \A k \in 1..Len(r.schedule.blocks) :
                (/\ r.schedule.blocks[k].type = SLOT
                 /\ IsBooked(schedule.appointments, r.schedule.blocks[k].id)) =>
                    \E n \in 1..Len(r.output.appointments) :
                        /\ r.output.appointments[n].id = r.schedule.blocks[k].id
                        /\ r.output.appointments[n].data = schedule.appointments[r.schedule.blocks[k].id]
                        /\ r.output.appointments[n].blockIndex = k - 1
                        /\ r.output.appointments[n].start
                                = minutesToTime(dayStartMin + TotalDuration(SubSeq(r.schedule.blocks, 1, k - 1)))

\* C26: checkDateAssignment allows every date for an admin session; for a pharmacy
\* session it allows a date only if an assignment document exists whose pharmacyId
\* equals the session's; it denies when there is no session or the lookup fails.
C26_DateAllowedOnlyForAssignee ==
    last = "checkDateAssignment" =>
        /\ verdict # <<>>
        /\ (session = <<>> => ~verdict[1].allowed)
        /\ (session # <<>> /\ session[1].isAdmin => verdict[1].allowed)
        /\ (session # <<>> /\ ~session[1].isAdmin =>
                (verdict[1].allowed <=>
                    /\ ~arg.failed
                    /\ assignmentDocs[arg.dateStr] # <<>>
                    /\ assignmentDocs[arg.dateStr][1].pharmacyId = session[1].pharmacyId))

C26_PharmacyDeniedOthersDate ==
    /\ last = "checkDateAssignment"
    /\ session # <<>>
    /\ ~session[1].isAdmin
    /\ session[1].pharmacyId = "p1"
    /\ ~arg.failed
    /\ arg.dateStr = Date2
    /\ assignmentDocs[Date2] # <<>>
    /\ verdict = <<[allowed |-> FALSE, reason |-> "dateAssignedToOther"]>>

\* C27: a session stored by a successful pharmacy login keeps isAdmin = false: no
\* step of loginPharmacy, of the auth-state callback of initAuth, or of a page
\* reload turns a stored pharmacy session into an admin session.
C27_PharmacySessionStaysPharmacy ==
    ("before" \in DOMAIN arg /\ arg.before # <<>> /\ ~arg.before[1].isAdmin /\ session # <<>>)
        => ~session[1].isAdmin

\* C28: state.schedule is never overwritten with the stored schedule of a date other
\* than state.date, so a save never writes the schedule loaded for one date under
\* the key of another.
C28_ScheduleOfCurrentDate ==
    /\ origin # <<>> => origin[1] = date
    /\ (last \in {"saveSlot", "handleClearAppointment"} /\ arg.origin # <<>>) => arg.origin[1] = arg.docId

\* C29: when no save, no snapshot callback and no admin cancellation is in flight,
\* month availability marks a date 'full' exactly when the stored schedule of that
\* date reflows to zero open slots and at least one booking.
C29_FullMarkMatchesStoredDay ==
    (tasks = {} /\ (\A l \in listeners : ~l.pending)) =>
        \A d \in Dates :
            (/\ monthAvailability[monthKey(d)] # <<>>
             /\ d \in DOMAIN monthAvailability[monthKey(d)][1]
             /\ monthAvailability[monthKey(d)][1][d] = "full")
            <=> (schedules[d] # <<>> /\ isFull(reflow(schedules[d][1], nextId).output))

\* C30: assignDates never overwrites the assignment of a locked date (a date assigned
\* to a different pharmacy that has at least one booked appointment), whatever the
\* order of calendar selection, pharmacy selection and the loads of the dashboard.
C30_LockedDateNotReassigned ==
    (last = "assignDates" /\ arg.before # <<>> /\ arg.before[1].pharmacyId # arg.pharmacyId)
        => ~dayHasBookings(schedules[arg.dateStr])

====
